---- MODULE Spec2Model ----
(***************************************************************************)
(* Model of the chart application (chart_app): the run of one chart from   *)
(* its selection, through the answers given on the chart screen            *)
(* (ChartDisplay.handleChoiceSelect), to the result screen, together with  *)
(* the run state kept in local storage.                                    *)
(***************************************************************************)
EXTENDS Integers, Sequences, FiniteSets, TLC

\* Largest point value a choice of a generated chart carries.
MaxPoint == 2

\* Largest number of history entries a run of the model collects.
MaxHistory == 4

(***************************************************************************)
(* JavaScript values.  A value that the code reads as "number | undefined" *)
(* is a tuple: <<>> is undefined, <<n>> the number n, <<0, 0>> NaN and     *)
(* <<0, 0, 0>> null (what JSON.stringify writes for NaN).                  *)
(***************************************************************************)
Undefined == <<>>

NaN == <<0, 0>>

Null == <<0, 0, 0>>

Num(n) == <<n>>

IsNum(v) == Len(v) = 1

\* v || 0
OrZero(v) == IF IsNum(v) /\ v[1] # 0 THEN v ELSE Num(0)

\* !v
Falsy(v) == ~(IsNum(v) /\ v[1] # 0)

\* a + b on numbers: null counts as 0, undefined and NaN give NaN
JsAdd(a, b) ==
    LET na == IF a = Null THEN Num(0) ELSE a
        nb == IF b = Null THEN Num(0) ELSE b
    IN  IF IsNum(na) /\ IsNum(nb) THEN Num(na[1] + nb[1]) ELSE NaN

\* The numeric comparisons lower <= v and v <(=) upper: null counts as 0,
\* undefined and NaN compare false.
JsGe(v, n) == IF v = Null THEN 0 >= n ELSE IsNum(v) /\ v[1] >= n

JsLt(v, n) == IF v = Null THEN 0 < n ELSE IsNum(v) /\ v[1] < n

JsLe(v, n) == IF v = Null THEN 0 <= n ELSE IsNum(v) /\ v[1] <= n

\* arr[i] read with a 1-based index
AtOneBased(arr, i) == IF i \in DOMAIN arr THEN Num(arr[i]) ELSE Undefined

\* arr[i] with a 0-based index: undefined outside the array
At(arr, i) == IF i + 1 \in DOMAIN arr THEN Num(arr[i + 1]) ELSE Undefined

\* JSON.parse(JSON.stringify(v)) of a number-valued property
JsonNum(v) == IF v = NaN THEN Null ELSE v

\* An optional array: <<>> is undefined, <<arr>> the array arr.
NoList == <<>>

SomeList(arr) == <<arr>>

\* An optional object (null or the object).
None == <<>>

Some(x) == <<x>>

(***************************************************************************)
(* Charts (IChart): type, questions (IQuestion) and diagnoses (IDiagnosis).*)
(***************************************************************************)
IQuestion(id, isLast, category, nexts, points) ==
    [id |-> id, isLast |-> isLast, category |-> category,
     choises |-> Len(nexts), nexts |-> nexts, points |-> points]

IDiagnosis(id, category, lower, upper) ==
    [id |-> id, category |-> category, lower |-> lower, upper |-> upper]

IChart(type, questions, diagnoses) ==
    [type |-> type, questions |-> questions, diagnoses |-> diagnoses]

\* The point lists of the generated charts: absent, or one value per choice
\* (the list [1, 5] is always among them).
PointLists ==
    {NoList, SomeList(<<1, 5>>)}
      \cup {SomeList(<<a, b>>) : a \in 0..MaxPoint, b \in 0..MaxPoint}

\* Decision charts: three questions, the third final; targets may name a
\* question or a diagnosis that does not exist (5, 9).
DecisionCharts ==
    {IChart("decision",
            <<IQuestion(1, FALSE, "default", n1, NoList),
              IQuestion(2, FALSE, "default", n2, NoList),
              IQuestion(3, TRUE, "default", n3, NoList)>>,
            <<IDiagnosis(7, "default", 0, 0), IDiagnosis(8, "default", 0, 0)>>) :
        n1 \in {<<2, 3>>, <<3, 5>>},
        n2 \in {<<3, 1>>, <<3, 3>>},
        n3 \in {<<7, 8>>, <<8, 9>>}}

\* The id lists of the score charts: sequential, or with a gap after 1 or
\* after 2.
ScoreIds == {<<1, 2, 3>>, <<1, 3, 4>>, <<1, 2, 4>>}

\* The nexts of a score chart: id + 1 as the compiler writes them, or
\* diagnosis ids.
ScoreNexts == {"sequential", "diagnosis"}

\* The category lists of the score charts.
ScoreCategories == {<<"A", "B", "A">>, <<"B", "A", "B">>}

ScoreQuestion(ids, cats, nx, k, points) ==
    IQuestion(ids[k], k = 3, cats[k],
              IF nx = "sequential" THEN <<ids[k] + 1, ids[k] + 1>>
                                   ELSE <<8, 7>>,
              points)

\* Score charts (single, multi, legacy point): two overlapping ranges, so
\* that the first match in list order matters, and no range from 6 on.  The
\* first two questions carry the point list p, the final one p, [1, 5] or
\* none.
ScoreChartsOf(t, categories) ==
    UNION {
      {IChart(t,
              <<ScoreQuestion(ids, cats, nx, 1, p),
                ScoreQuestion(ids, cats, nx, 2, p),
                ScoreQuestion(ids, cats, nx, 3, pl)>>,
              <<IDiagnosis(7, "A", 0, 3), IDiagnosis(8, "B", 2, 6)>>) :
          ids \in ScoreIds, cats \in categories, nx \in ScoreNexts,
          pl \in {NoList, SomeList(<<1, 5>>), p}} :
      p \in PointLists}

ScoreCharts ==
    ScoreChartsOf("single", {<<"default", "default", "default">>})
      \cup ScoreChartsOf("point", {<<"default", "default", "default">>})
      \cup ScoreChartsOf("multi", ScoreCategories)

Charts == DecisionCharts \cup ScoreCharts

(***************************************************************************)
(* The run state (IResult) and the evaluation of one answer.               *)
(***************************************************************************)
IHistory(questionId, choise) == [questionId |-> questionId, choise |-> choise]

IPoint(category, point) == [category |-> category, point |-> point]

\* ChartSelection.handleChartSelect: the run state of a freshly selected chart
NewResult(c) ==
    [photo |-> FALSE,
     currentQId |-> IF Len(c.questions) > 0 THEN Num(c.questions[1].id)
                                            ELSE Undefined,
     currentPoint |-> IF c.type = "single" THEN Num(0) ELSE Undefined,
     currentPoints |-> IF c.type = "multi" THEN SomeList(<<>>) ELSE NoList,
     diagnosisId |-> Undefined,
     history |-> <<>>]

\* The score is not written.
JsonResultWithoutScore(r) ==
    [r EXCEPT !.currentQId = JsonNum(@),
              !.currentPoint = Undefined,
              !.diagnosisId = JsonNum(@),
              !.currentPoints = NoList]

\* JSON.parse(JSON.stringify(result)): saveCurrentResult, getCurrentResult
JsonResult(r) ==
    [r EXCEPT !.currentQId = JsonNum(@),
              !.currentPoint = JsonNum(@),
              !.diagnosisId = JsonNum(@),
              !.currentPoints =
                  IF @ = NoList THEN NoList
                  ELSE SomeList([k \in DOMAIN @[1] |->
                                   IPoint(@[1][k].category,
                                          JsonNum(@[1][k].point))])]

\* array.find / findIndex: the 1-based index of the first of the matching
\* indexes, 0 if there is none
FirstIndex(matching) ==
    IF matching = {} THEN 0
    ELSE CHOOSE k \in matching : \A j \in matching : k <= j

\* the first question when no question has the id
FindQuestionOrFirst(c, id) ==
    LET found == FirstIndex({k \in DOMAIN c.questions :
                               Num(c.questions[k].id) = id})
    IN  IF found = 0 THEN 1 ELSE found

\* chart.questions.find(q => q.id === id)
FindQuestion(c, id) ==
    FirstIndex({k \in DOMAIN c.questions : Num(c.questions[k].id) = id})

\* the first diagnosis when no diagnosis has the id
FindDiagnosisByIdOrFirst(c, id) ==
    LET found == FirstIndex({k \in DOMAIN c.diagnoses :
                               Num(c.diagnoses[k].id) = id})
    IN  IF found = 0 THEN 1 ELSE found

\* chart.diagnoses.find(d => d.id === id)
FindDiagnosisById(c, id) ==
    FirstIndex({k \in DOMAIN c.diagnoses : Num(c.diagnoses[k].id) = id})

\* the range test with the upper bound included
FindDiagnosisUpperInclusive(c, point) ==
    FirstIndex({k \in DOMAIN c.diagnoses :
                  /\ JsGe(point, c.diagnoses[k].lower)
                  /\ JsLe(point, c.diagnoses[k].upper)})

\* diagnoses.find(d => point >= d.lower && point < d.upper)
FindDiagnosisHalfOpen(c, point) ==
    FirstIndex({k \in DOMAIN c.diagnoses :
                  /\ JsGe(point, c.diagnoses[k].lower)
                  /\ JsLt(point, c.diagnoses[k].upper)})

\* the range test with the upper bound excluded
FindDiagnosisUpperExclusive(c, point) ==
    FirstIndex({k \in DOMAIN c.diagnoses :
                  /\ JsGe(point, c.diagnoses[k].lower)
                  /\ JsLt(point, c.diagnoses[k].upper)})

\* diagnoses.find(d => point >= d.lower && point <= d.upper)
FindDiagnosisClosed(c, point) ==
    FirstIndex({k \in DOMAIN c.diagnoses :
                  /\ JsGe(point, c.diagnoses[k].lower)
                  /\ JsLe(point, c.diagnoses[k].upper)})

\* Array.from(new Set(categories)): the distinct values in order of first
\* occurrence
RECURSIVE Distinct(_)
Distinct(arr) ==
    IF arr = <<>> THEN <<>>
    ELSE LET front == Distinct(SubSeq(arr, 1, Len(arr) - 1))
             last == arr[Len(arr)]
         IN  IF \E k \in DOMAIN front : front[k] = last
             THEN front ELSE Append(front, last)

initializePoints(c) ==
    LET categories ==
            Distinct([k \in DOMAIN c.questions |-> c.questions[k].category])
    IN  [k \in DOMAIN categories |-> IPoint(categories[k], Num(0))]

\* the choice's position, whether or not the question has points
SelectedPointByIndex(q, choiceIndex) == Num(choiceIndex + 1)

\* currentQuestion.points ? currentQuestion.points[choiceIndex] : choiceIndex + 1
SelectedPoint(q, choiceIndex) ==
    IF q.points # NoList THEN At(q.points[1], choiceIndex)
    ELSE Num(choiceIndex + 1)

\* the selected point added to the entry of every category
AddToEveryCategory(points, category, selectedPoint) ==
    [k \in DOMAIN points |->
        IPoint(points[k].category, JsAdd(points[k].point, selectedPoint))]

\* points[findIndex(p => p.category === category)].point += selectedPoint
AddToCategory(points, category, selectedPoint) ==
    LET targetPointIndex ==
            FirstIndex({k \in DOMAIN points : points[k].category = category})
    IN  IF targetPointIndex # 0
        THEN [points EXCEPT ![targetPointIndex].point = JsAdd(@, selectedPoint)]
        ELSE points

(***************************************************************************)
(* ChartDisplay.handleChoiceSelect, evaluated on the chart c, the run      *)
(* state r held by the component, the displayed question q and the index   *)
(* of the selected choice.  The outcome is                                 *)
(*   kind   "final" (diagnosis chosen), "next" (next question) or "error", *)
(*   result the run state passed to setCurrentResult and saveCurrentResult *)
(*          (r itself when the handler throws),                            *)
(*   held   the run state object r as the handler leaves it: the multi     *)
(*          branch adds into the point array of r in place,                *)
(*   next   the index of the next question in c.questions (kind "next"),   *)
(*   error  the message passed to setError (kind "error").                 *)
(***************************************************************************)
ErrNoDiagnosisForPoint == "no diagnosis for this point"

ErrNoDiagnosis == "no diagnosis for the point"

ErrNextQuestionNotFound == "next question not found"

ErrCurrentQuestionNotFound == "current question not found"

ErrDiagnosisNotFound == "diagnosis not found"

\* currentResult.currentPoints || []
PointsOrEmpty(r) == IF r.currentPoints = NoList THEN <<>> ELSE r.currentPoints[1]

\* the list initialised at every answer
MultiPointsFromZero(c, r, q, choiceIndex) ==
    AddToCategory(initializePoints(c), q.category, SelectedPoint(q, choiceIndex))

\* The multi branch: initialise the list when it is empty, then add the
\* selected point to the entry of the question's category.
MultiPoints(c, r, q, choiceIndex) ==
    LET points == IF Len(PointsOrEmpty(r)) = 0 THEN initializePoints(c)
                  ELSE PointsOrEmpty(r)
    IN  AddToCategory(points, q.category, SelectedPoint(q, choiceIndex))

\* r after the in-place additions of the multi branch: the array of r is
\* the one written to unless it was empty (then a new array is built).
HeldAfter(c, r, q, choiceIndex) ==
    IF c.type = "multi" /\ Len(PointsOrEmpty(r)) > 0
    THEN [r EXCEPT !.currentPoints = SomeList(MultiPoints(c, r, q, choiceIndex))]
    ELSE r

Outcome(kind, result, held, next, error) ==
    [kind |-> kind, result |-> result, held |-> held, next |-> next,
     error |-> error]

\* the final answer with the multi type resolved by point range, as single
FinalAnswerByRange(c, r, q, choiceIndex) ==
    LET updatedHistory == Append(r.history, IHistory(q.id, choiceIndex))
        added == JsAdd(OrZero(r.currentPoint), SelectedPoint(q, choiceIndex))
        diagnosis == FindDiagnosisHalfOpen(c, added)
    IN  IF c.type = "decision"
        THEN Outcome("final",
                     [r EXCEPT !.diagnosisId = At(q.nexts, choiceIndex),
                               !.currentPoint = OrZero(r.currentPoint),
                               !.currentPoints = SomeList(PointsOrEmpty(r)),
                               !.history = updatedHistory],
                     r, 0, "")
        ELSE IF diagnosis = 0
        THEN Outcome("error", r, r, 0, ErrNoDiagnosisForPoint)
        ELSE Outcome("final",
                     [r EXCEPT !.diagnosisId = Num(c.diagnoses[diagnosis].id),
                               !.currentPoint = added,
                               !.currentPoints =
                                   SomeList(IF c.type = "multi"
                                            THEN MultiPoints(c, r, q, choiceIndex)
                                            ELSE PointsOrEmpty(r)),
                               !.history = updatedHistory],
                     HeldAfter(c, r, q, choiceIndex), 0, "")

\* if (currentQuestion.isLast) { ... }
FinalAnswer(c, r, q, choiceIndex) ==
    LET updatedHistory == Append(r.history, IHistory(q.id, choiceIndex))
        nextId == At(q.nexts, choiceIndex)
        added == JsAdd(OrZero(r.currentPoint), SelectedPoint(q, choiceIndex))
        finalPoint == IF c.type \in {"decision", "multi"}
                      THEN OrZero(r.currentPoint) ELSE added
        finalPoints == IF c.type = "multi" THEN MultiPoints(c, r, q, choiceIndex)
                       ELSE PointsOrEmpty(r)
        diagnosis == IF c.type = "single" THEN FindDiagnosisHalfOpen(c, added)
                     ELSE FindDiagnosisClosed(c, added)
        diagnosisId == IF c.type \in {"decision", "multi"} THEN nextId
                       ELSE Num(c.diagnoses[diagnosis].id)
    IN  IF c.type \notin {"decision", "multi"} /\ diagnosis = 0
        THEN Outcome("error", r, r, 0,
                     IF c.type = "single" THEN ErrNoDiagnosisForPoint
                     ELSE ErrNoDiagnosis)
        ELSE Outcome("final",
                     [r EXCEPT !.diagnosisId = diagnosisId,
                               !.currentPoint = finalPoint,
                               !.currentPoints = SomeList(finalPoints),
                               !.history = updatedHistory],
                     HeldAfter(c, r, q, choiceIndex), 0, "")

\* the answer with the question on display kept as the next question of a
\* decision chart
NextAnswerSameQuestion(c, r, q, choiceIndex) ==
    LET updatedHistory == Append(r.history, IHistory(q.id, choiceIndex))
        updatedPoint == IF c.type \in {"decision", "multi"}
                        THEN OrZero(r.currentPoint)
                        ELSE JsAdd(OrZero(r.currentPoint),
                                   SelectedPoint(q, choiceIndex))
        updatedPoints == IF c.type = "multi" THEN MultiPoints(c, r, q, choiceIndex)
                         ELSE PointsOrEmpty(r)
        nextQuestionId == IF c.type = "decision" THEN Num(q.id)
                          ELSE Num(q.id + 1)
        nextQuestion == FindQuestion(c, nextQuestionId)
    IN  IF nextQuestion = 0
        THEN Outcome("error", r, HeldAfter(c, r, q, choiceIndex), 0,
                     ErrNextQuestionNotFound)
        ELSE Outcome("next",
                     [r EXCEPT !.currentQId = Num(c.questions[nextQuestion].id),
                               !.currentPoint = updatedPoint,
                               !.currentPoints = SomeList(updatedPoints),
                               !.history = updatedHistory],
                     HeldAfter(c, r, q, choiceIndex), nextQuestion, "")

\* else { ... } with an answer that leads to a question already answered
\* refused
NextAnswerOnce(c, r, q, choiceIndex) ==
    LET updatedHistory == Append(r.history, IHistory(q.id, choiceIndex))
        nextId == At(q.nexts, choiceIndex)
        updatedPoint == IF c.type \in {"decision", "multi"}
                        THEN OrZero(r.currentPoint)
                        ELSE JsAdd(OrZero(r.currentPoint),
                                   SelectedPoint(q, choiceIndex))
        updatedPoints == IF c.type = "multi" THEN MultiPoints(c, r, q, choiceIndex)
                         ELSE PointsOrEmpty(r)
        nextQuestionId == IF c.type = "decision" THEN nextId ELSE Num(q.id + 1)
        nextQuestion == FindQuestion(c, nextQuestionId)
    IN  IF \/ nextQuestion = 0
           \/ \E k \in DOMAIN r.history :
                  r.history[k].questionId = c.questions[nextQuestion].id
        THEN Outcome("error", r, HeldAfter(c, r, q, choiceIndex), 0,
                     ErrNextQuestionNotFound)
        ELSE Outcome("next",
                     [r EXCEPT !.currentQId = Num(c.questions[nextQuestion].id),
                               !.currentPoint = updatedPoint,
                               !.currentPoints = SomeList(updatedPoints),
                               !.history = updatedHistory],
                     HeldAfter(c, r, q, choiceIndex), nextQuestion, "")

\* else { ... }
NextAnswer(c, r, q, choiceIndex) ==
    LET updatedHistory == Append(r.history, IHistory(q.id, choiceIndex))
        nextId == At(q.nexts, choiceIndex)
        updatedPoint == IF c.type \in {"decision", "multi"}
                        THEN OrZero(r.currentPoint)
                        ELSE JsAdd(OrZero(r.currentPoint),
                                   SelectedPoint(q, choiceIndex))
        updatedPoints == IF c.type = "multi" THEN MultiPoints(c, r, q, choiceIndex)
                         ELSE PointsOrEmpty(r)
        nextQuestionId == IF c.type = "decision" THEN nextId ELSE Num(q.id + 1)
        nextQuestion == FindQuestion(c, nextQuestionId)
    IN  IF nextQuestion = 0
        THEN Outcome("error", r, HeldAfter(c, r, q, choiceIndex), 0,
                     ErrNextQuestionNotFound)
        ELSE Outcome("next",
                     [r EXCEPT !.currentQId = Num(c.questions[nextQuestion].id),
                               !.currentPoint = updatedPoint,
                               !.currentPoints = SomeList(updatedPoints),
                               !.history = updatedHistory],
                     HeldAfter(c, r, q, choiceIndex), nextQuestion, "")

handleChoiceSelect(c, r, q, choiceIndex) ==
    IF q.isLast THEN FinalAnswer(c, r, q, choiceIndex)
    ELSE NextAnswer(c, r, q, choiceIndex)

(***************************************************************************)
(* State.  Local storage holds the selected chart and the run state; the   *)
(* component state is that of the screen that is mounted (ChartSelection,  *)
(* PhotoCapture, ChartDisplay or ResultDisplay: one at a time, so the      *)
(* state variables the screens have in common are shared).                 *)
(***************************************************************************)
VARIABLES
    chart,              \* the chart the server lists and the user selects
    screen,             \* the mounted route
    loading,            \* ChartSelection: loading
    selectedChart,      \* local storage SELECTED_CHART is present
    storedResult,       \* local storage CURRENT_RESULT: None or Some(IResult)
    chartData,          \* ChartDisplay, ResultDisplay: chartData is set
    currentResult,      \* ChartDisplay, ResultDisplay: currentResult
    currentQuestion,    \* ChartDisplay: index of currentQuestion, 0 if null
    isTransitioning,    \* ChartDisplay: isTransitioning
    isFinalTransition,  \* ChartDisplay: isFinalTransition
    error,              \* the mounted screen's error message, "" if null
    questionTimer,      \* pending setTimeout(600): index of the next question
    navigateTimer,      \* pending setTimeout(800): navigate('/result')
    diagnosis,          \* ResultDisplay: index of the diagnosis shown, 0 if null
    previousResult      \* ChartDisplay: the run state object the last answer
                        \* was evaluated on, as the handler left it

\* The setting application, ChartCreate.
VARIABLES
    droppedFile,        \* the lines of the CSV file dropped on the page
    createChartData,    \* ChartCreate: chartData, None or Some(chart)
    createError,        \* ChartCreate: the error thrown by the compiler
    chartDiagram,       \* table chart: the diagram of the registered chart
    listedChart         \* the chart application: the chart parsed from the list

appVars == <<chart, screen, loading, selectedChart, storedResult, chartData,
             currentResult, currentQuestion, isTransitioning,
             isFinalTransition, error, questionTimer, navigateTimer,
             diagnosis, previousResult>>

\* The backend: the chart table and the registration requests in progress.
VARIABLES
    chartTable,         \* table chart: the number of rows of each chart name
    registerPc,         \* RegisterChartHandler: the statement each request is at
    registerName,       \* RegisterChartHandler: requestData.Name
    registerStatus      \* RegisterChartHandler: the status code answered, 0 if none

\* The delivery of completed runs to the backend.
VARIABLES
    resultTable,        \* table result: the number of records of each run
    photoFiles,         \* /app/photos: the number of photo files of each run
    offlineResults,     \* IndexedDB offlineResults: entries [id, run]
    offlineSeq,         \* IndexedDB offlineResults: the next key
    runState,           \* each run: "none", "completed", "saved", "dropped"
    syncList,           \* syncOfflineResults: the entries still to be sent
    syncDeleting,       \* syncOfflineResults: the first entry was answered ok
    saveAnswer          \* POST /api/save: how the last request was answered

\* The photo encryption.
VARIABLES
    cryptoPlain,        \* the bytes of the photo
    cryptoPhoto,        \* IResult.photo: the photo in base64
    cryptoKey,          \* the key made of the passphrase
    encrypted,          \* what EncryptImage returned
    decryptInput,       \* the bytes given to the decrypt functions
    decrypted           \* what a decrypt function returned

\* The aggregation tool.
VARIABLES
    toolChart,          \* the chart whose results are processed
    toolResults,        \* the results of the chart, each with its photo file
    csvIndex,           \* generateCSV: the result the loop is at, 0 at the header
    csvRows,            \* the CSV file: the rows written after the header
    toolExit,           \* the exit status of the process, -1 while it runs
    toolIndex,          \* decryptPhotos: the result the loop is at
    decryptedCount,     \* decryptPhotos: decryptedCount
    decryptedFiles,     \* the output directory: files [id, data]
    toolWarnings,       \* the results a warning was printed for
    toolError           \* decryptPhotos: the result whose error ended the loop

toolVars == <<toolChart, toolResults, csvIndex, csvRows, toolExit, toolIndex,
              decryptedCount, decryptedFiles, toolWarnings, toolError>>

createVars == <<droppedFile, createChartData, createError, chartDiagram,
                listedChart>>

cryptoVars == <<cryptoPlain, cryptoPhoto, cryptoKey, encrypted, decryptInput,
                decrypted>>

syncVars == <<resultTable, photoFiles, offlineResults, offlineSeq, runState,
              syncList, syncDeleting, saveAnswer>>

storeVars == <<chartTable, registerPc, registerName, registerStatus>>

\* The variables of the other parts of the system.
otherVars == <<createVars, storeVars, syncVars, cryptoVars, toolVars>>

\* The backend with an empty chart table and no request.
StoreIdle ==
    /\ chartTable = <<>>
    /\ registerPc = <<>>
    /\ registerName = <<>>
    /\ registerStatus = <<>>

\* No file has been dropped on the page of the setting application.
CreateIdle ==
    /\ droppedFile = <<>>
    /\ createChartData = None
    /\ createError = None
    /\ chartDiagram = None
    /\ listedChart = None

\* No run has been completed and nothing is queued or stored.
SyncIdle ==
    /\ resultTable = <<>>
    /\ photoFiles = <<>>
    /\ offlineResults = {}
    /\ offlineSeq = 1
    /\ runState = <<>>
    /\ syncList = <<>>
    /\ syncDeleting = <<>>
    /\ saveAnswer = ""

\* No photo is being encrypted or decrypted.
CryptoIdle ==
    /\ cryptoPlain = <<>>
    /\ cryptoPhoto = <<>>
    /\ cryptoKey = <<>>
    /\ encrypted = <<>>
    /\ decryptInput = <<>>
    /\ decrypted = <<>>

\* The aggregation tool is not running.
ToolIdle ==
    /\ toolChart = <<>>
    /\ toolResults = <<>>
    /\ csvIndex = 0
    /\ csvRows = <<>>
    /\ toolExit = -1
    /\ toolIndex = 1
    /\ decryptedCount = 0
    /\ decryptedFiles = {}
    /\ toolWarnings = {}
    /\ toolError = 0

OtherInit == CreateIdle /\ StoreIdle /\ SyncIdle /\ CryptoIdle /\ ToolIdle

vars == <<appVars, otherVars>>

\* The state variables of a screen that has just been mounted.
Mounted ==
    /\ loading' = TRUE
    /\ chartData' = FALSE
    /\ currentResult' = None
    /\ currentQuestion' = 0
    /\ isTransitioning' = FALSE
    /\ isFinalTransition' = FALSE
    /\ error' = ""
    /\ questionTimer' = 0
    /\ navigateTimer' = FALSE
    /\ diagnosis' = 0
    /\ previousResult' = None

Init ==
    /\ chart \in Charts
    /\ screen = "selection"
    /\ loading = TRUE
    /\ selectedChart = FALSE
    /\ storedResult = None
    /\ chartData = FALSE
    /\ currentResult = None
    /\ currentQuestion = 0
    /\ isTransitioning = FALSE
    /\ isFinalTransition = FALSE
    /\ error = ""
    /\ questionTimer = 0
    /\ navigateTimer = FALSE
    /\ diagnosis = 0
    /\ previousResult = None
    /\ OtherInit

\* ChartSelection, mount effect: clearAllStorage() on the selection path
loadCharts ==
    /\ screen = "selection"
    /\ loading
    /\ selectedChart' = FALSE
    /\ storedResult' = None
    /\ loading' = FALSE
    /\ UNCHANGED <<chart, screen, chartData, currentResult, currentQuestion,
                   isTransitioning, isFinalTransition, error, questionTimer,
                   navigateTimer, diagnosis, previousResult>>
    /\ UNCHANGED otherVars

\* ChartSelection.handleChartSelect
handleChartSelect ==
    /\ screen = "selection"
    /\ ~loading
    /\ selectedChart' = TRUE
    /\ storedResult' = Some(JsonResult(NewResult(chart)))
    /\ screen' = "photo"
    /\ Mounted
    /\ UNCHANGED chart
    /\ UNCHANGED otherVars

\* PhotoCapture.handleProceed, a photo having been captured
handleProceed ==
    /\ screen = "photo"
    /\ error = ""
    /\ IF storedResult = None
       THEN /\ error' = "result data not found"
            /\ UNCHANGED <<chart, screen, loading, selectedChart, storedResult,
                           chartData, currentResult, currentQuestion,
                           isTransitioning, isFinalTransition, questionTimer,
                           navigateTimer, diagnosis, previousResult>>
       ELSE /\ storedResult' =
                   Some(JsonResult([storedResult[1] EXCEPT !.photo = TRUE]))
            /\ screen' = "chart"
            /\ Mounted
            /\ UNCHANGED <<chart, selectedChart>>
    /\ UNCHANGED otherVars

\* PhotoCapture.handleGoBack: window.location.href = '/chart/'
handleGoBack ==
    /\ screen = "photo"
    /\ screen' = "selection"
    /\ Mounted
    /\ UNCHANGED <<chart, selectedChart, storedResult>>
    /\ UNCHANGED otherVars

\* ChartDisplay, mount effect
initializeChartState ==
    /\ screen = "chart"
    /\ ~chartData
    /\ error = ""
    /\ IF ~selectedChart
       THEN /\ screen' = "selection"
            /\ Mounted
            /\ UNCHANGED <<chart, selectedChart, storedResult>>
       ELSE IF storedResult = None
       THEN /\ screen' = "photo"
            /\ Mounted
            /\ UNCHANGED <<chart, selectedChart, storedResult>>
       ELSE LET savedResult == storedResult[1]
                currentQ == FindQuestion(chart, savedResult.currentQId)
            IN  /\ chartData' = TRUE
                /\ currentResult' = Some(savedResult)
                /\ IF currentQ # 0
                   THEN currentQuestion' = currentQ /\ error' = error
                   ELSE currentQuestion' = currentQuestion
                          /\ error' = ErrCurrentQuestionNotFound
                /\ UNCHANGED <<chart, screen, loading, selectedChart,
                               storedResult, isTransitioning,
                               isFinalTransition, questionTimer,
                               navigateTimer, diagnosis, previousResult>>
    /\ UNCHANGED otherVars

\* The state after handleChoiceSelect(choiceIndex) has run on the rendered
\* state: setCurrentResult, saveCurrentResult, the timers and setError.
ApplyChoice(choiceIndex) ==
    LET out == handleChoiceSelect(chart, currentResult[1],
                                  chart.questions[currentQuestion], choiceIndex)
    IN  /\ currentResult' =
               Some(IF out.kind = "error" THEN out.held ELSE out.result)
        /\ storedResult' = IF out.kind = "error" THEN storedResult
                           ELSE Some(JsonResult(out.result))
        /\ isTransitioning' = (out.kind = "next")
        /\ isFinalTransition' = (isFinalTransition \/ out.kind = "final")
        /\ navigateTimer' = (navigateTimer \/ out.kind = "final")
        /\ questionTimer' = IF out.kind = "next" THEN out.next ELSE questionTimer
        /\ error' = IF out.kind = "error" THEN out.error ELSE error
        /\ previousResult' = Some(out.held)
        /\ UNCHANGED <<chart, screen, loading, selectedChart, chartData,
                       currentQuestion, diagnosis>>
        /\ UNCHANGED otherVars

\* The choice buttons are rendered: no error, question and chart present.
ChoicesShown ==
    /\ screen = "chart"
    /\ error = ""
    /\ chartData
    /\ currentQuestion # 0
    /\ currentResult # None

\* A click on the button of choice choiceIndex (disabled while transitioning)
ChoiceSelect(choiceIndex) ==
    /\ ChoicesShown
    /\ ~isTransitioning
    /\ choiceIndex \in 0..(chart.questions[currentQuestion].choises - 1)
    /\ Len(currentResult[1].history) < MaxHistory
    /\ ApplyChoice(choiceIndex)

\* setTimeout(..., 600): show the next question
QuestionTimer ==
    /\ screen = "chart"
    /\ questionTimer # 0
    /\ currentQuestion' = questionTimer
    /\ isTransitioning' = FALSE
    /\ questionTimer' = 0
    /\ UNCHANGED <<chart, screen, loading, selectedChart, storedResult,
                   chartData, currentResult, isFinalTransition, error,
                   navigateTimer, diagnosis, previousResult>>
    /\ UNCHANGED otherVars

\* setTimeout(..., 800): navigate('/result')
NavigateTimer ==
    /\ screen = "chart"
    /\ navigateTimer
    /\ screen' = "result"
    /\ Mounted
    /\ UNCHANGED <<chart, selectedChart, storedResult>>
    /\ UNCHANGED otherVars

\* ChartDisplay.handleExit and the error screen's back button
handleExit ==
    /\ screen = "chart"
    /\ chartData
    /\ screen' = "selection"
    /\ Mounted
    /\ UNCHANGED <<chart, selectedChart, storedResult>>
    /\ UNCHANGED otherVars

\* A reload of the page on the chart screen or on the result screen
Reload ==
    /\ screen \in {"chart", "result"}
    /\ Mounted
    /\ UNCHANGED <<chart, screen, selectedChart, storedResult>>
    /\ UNCHANGED otherVars

\* The diagnosis ResultDisplay shows for the completed run r: the diagnosis
\* with the run's diagnosis id, replaced for single and point charts by the
\* range match of the score when there is one.
DiagnosisShown(c, r) ==
    LET diagnosisResult == FindDiagnosisById(c, r.diagnosisId)
        pointBased == IF c.type = "single"
                      THEN FindDiagnosisHalfOpen(c, r.currentPoint)
                      ELSE FindDiagnosisClosed(c, r.currentPoint)
    IN  IF c.type \in {"decision", "multi"} THEN diagnosisResult
        ELSE IF r.currentPoint # Undefined /\ pointBased # 0 THEN pointBased
        ELSE diagnosisResult

\* ResultDisplay, mount effect
initializeResult ==
    /\ screen = "result"
    /\ ~chartData
    /\ error = ""
    /\ IF storedResult = None \/ ~selectedChart
       THEN /\ screen' = "selection"
            /\ Mounted
            /\ UNCHANGED <<chart, selectedChart, storedResult>>
       ELSE IF Falsy(storedResult[1].diagnosisId)
       THEN /\ screen' = "selection"
            /\ Mounted
            /\ UNCHANGED <<chart, selectedChart, storedResult>>
       ELSE LET result == storedResult[1] IN
            /\ chartData' = TRUE
            /\ currentResult' = Some(result)
            /\ IF FindDiagnosisById(chart, result.diagnosisId) = 0
               THEN error' = ErrDiagnosisNotFound /\ diagnosis' = diagnosis
               ELSE error' = error /\ diagnosis' = DiagnosisShown(chart, result)
            /\ UNCHANGED <<chart, screen, loading, selectedChart, storedResult,
                           currentQuestion, isTransitioning, isFinalTransition,
                           questionTimer, navigateTimer, previousResult>>
    /\ UNCHANGED otherVars

\* ResultDisplay.handleBackToSelection: clearAllStorage(), then the
\* selection page is loaded
handleBackToSelection ==
    /\ screen = "result"
    /\ chartData
    /\ selectedChart' = FALSE
    /\ storedResult' = None
    /\ screen' = "selection"
    /\ Mounted
    /\ UNCHANGED chart
    /\ UNCHANGED otherVars

\* handleChoiceSelect called with an index that is not the index of a choice
\* of the question on display
AnyChoiceSelect(choiceIndex) ==
    /\ ChoicesShown
    /\ ~isTransitioning
    /\ choiceIndex >= chart.questions[currentQuestion].choises
    /\ Len(currentResult[1].history) < MaxHistory
    /\ ApplyChoice(choiceIndex)

Next ==
    \/ loadCharts
    \/ handleChartSelect
    \/ handleProceed
    \/ handleGoBack
    \/ initializeChartState
    \/ \E choiceIndex \in 0..4 : ChoiceSelect(choiceIndex)
    \/ QuestionTimer
    \/ NavigateTimer
    \/ handleExit
    \/ Reload
    \/ initializeResult
    \/ handleBackToSelection

Spec == Init /\ [][Next]_vars

\* The handler as a function of its argument: any index may be passed.
NextAnyIndex ==
    \/ Next
    \/ \E choiceIndex \in 0..2 : AnyChoiceSelect(choiceIndex)

SpecAnyIndex == Init /\ [][NextAnyIndex]_vars

\* Two clicks on choice buttons handled on the same rendered state, the
\* second before the component is rendered with the state set by the first
\* (the buttons are disabled by the rendering only): handleChoiceSelect runs
\* twice with the same currentResult object, currentQuestion and chartData.
ChoiceSelectTwice(firstIndex, secondIndex) ==
    /\ ChoicesShown
    /\ ~isTransitioning
    /\ firstIndex \in 0..(chart.questions[currentQuestion].choises - 1)
    /\ secondIndex \in 0..(chart.questions[currentQuestion].choises - 1)
    /\ Len(currentResult[1].history) < MaxHistory
    /\ LET q == chart.questions[currentQuestion]
           first == handleChoiceSelect(chart, currentResult[1], q, firstIndex)
           second == handleChoiceSelect(chart, first.held, q, secondIndex)
       IN  /\ currentResult' =
                  Some(IF second.kind # "error" THEN second.result
                       ELSE IF first.kind # "error" THEN first.result
                       ELSE second.held)
           /\ storedResult' =
                  IF second.kind # "error" THEN Some(JsonResult(second.result))
                  ELSE IF first.kind # "error" THEN Some(JsonResult(first.result))
                  ELSE storedResult
           /\ isTransitioning' = (second.kind = "next")
           /\ isFinalTransition' =
                  (isFinalTransition \/ first.kind = "final" \/ second.kind = "final")
           /\ navigateTimer' =
                  (navigateTimer \/ first.kind = "final" \/ second.kind = "final")
           /\ questionTimer' = IF second.kind = "next" THEN second.next
                               ELSE IF first.kind = "next" THEN first.next
                               ELSE questionTimer
           /\ error' = IF second.kind = "error" THEN second.error
                       ELSE IF first.kind = "error" THEN first.error
                       ELSE error
           /\ previousResult' = Some(second.held)
    /\ UNCHANGED <<chart, screen, loading, selectedChart, chartData,
                   currentQuestion, diagnosis>>
    /\ UNCHANGED otherVars

NextTwice ==
    \/ Next
    \/ \E firstIndex \in 0..4, secondIndex \in 0..4 :
          ChoiceSelectTwice(firstIndex, secondIndex)

\* The charts of the runs with two clicks: the decision charts, and the score
\* charts with sequential ids whose questions all carry the points [1, 5].
TwiceCharts ==
    {c \in Charts :
        c.type # "decision" =>
            \A k \in DOMAIN c.questions :
                c.questions[k].id = k /\ c.questions[k].points = SomeList(<<1, 5>>)}

InitTwice == Init /\ chart \in TwiceCharts

SpecTwice == InitTwice /\ [][NextTwice]_vars

(***************************************************************************)
(* The CSV compiler of the setting application (csvParser.ts).  A CSV text *)
(* is the sequence of its lines (parseCSVLines), a line the sequence of    *)
(* its trimmed fields (parseCSVLine).  A field is its text together with   *)
(* what parseInt(text, 10) makes of it: kind "number" and the value, or    *)
(* kind "text" / "empty" (NaN).                                            *)
(***************************************************************************)
EmptyField == [kind |-> "empty", value |-> 0, text |-> ""]

TextField(t) == [kind |-> "text", value |-> 0, text |-> t]

\* the decimal text of a number in 0..9
NumberField(n) ==
    [kind |-> "number", value |-> n,
     text |-> <<"0", "1", "2", "3", "4", "5", "6", "7", "8", "9">>[n + 1]]

\* parseInt(text, 10)
parseInt(f) == IF f.kind = "number" THEN Num(f.value) ELSE NaN

\* line.trim() === ''
IsBlankLine(line) == line = <<EmptyField>>

\* while (fields.length < n) fields.push('')
Padded(fields, n) ==
    fields \o [k \in 1..(n - Len(fields)) |-> EmptyField]

\* The first fields of the header lines of the two sections.
QuestionHeader == "QuestionID"

DiagnosisHeader == "DiagnosisID"

\* The messages of the errors the compiler throws.
ErrTooFewLines == "at least 5 lines are needed"

ErrNoQuestionPart == "question part not found"

ErrNoDiagnosisPart == "diagnosis part not found"

ErrFormat == "the CSV has format errors"

ErrNoQuestions == "no question is defined"

ErrNoDiagnoses == "no diagnosis is defined"

\* The outcome of parsing one row: the parsed object or the message thrown.
RowParsed(value) == [ok |-> TRUE, value |-> value, message |-> ""]

RowThrown(message) == [ok |-> FALSE, value |-> <<>>, message |-> message]

\* a question row parsed without the check of the number of choices
parseQuestionRowAnyChoices(fields, chartType) ==
    LET f == Padded(fields, 14)
        id == parseInt(f[1])
        given == SelectSeq(<<0, 1, 2, 3, 4>>, LAMBDA i : f[5 + i].text # "")
        unset == {k \in DOMAIN given : f[10 + given[k]].text = ""}
        notNumber == {k \in DOMAIN given : parseInt(f[10 + given[k]]) = NaN}
        values == [k \in DOMAIN given |-> f[10 + given[k]].value]
        scored == chartType # "decision"
        nexts == IF scored THEN [k \in DOMAIN given |-> id[1] + 1] ELSE values
    IN  IF notNumber # {}
        THEN RowThrown(IF FirstIndex(notNumber) \in unset
                       THEN "target or point of a choice is not set"
                       ELSE "target or point of a choice is not a number")
        ELSE IF ~IsNum(id) \/ id[1] < 1
        THEN RowThrown("invalid question id")
        ELSE IF f[4].text = ""
        THEN RowThrown("no question sentence")
        ELSE RowParsed(
               [id |-> id[1],
                isLast |-> (f[2].text = "1"),
                category |-> IF f[3].text = "" THEN "default" ELSE f[3].text,
                sentence |-> f[4].text,
                choises |-> [k \in DOMAIN given |-> f[5 + given[k]].text],
                nexts |-> nexts,
                points |-> IF chartType \in {"single", "multi"}
                              /\ Len(values) > 0
                           THEN SomeList(values) ELSE NoList])

\* parseQuestionRow(fields, chartType)
parseQuestionRow(fields, chartType) ==
    LET f == Padded(fields, 14)
        id == parseInt(f[1])
        given == SelectSeq(<<0, 1, 2, 3, 4>>, LAMBDA i : f[5 + i].text # "")
        unset == {k \in DOMAIN given : f[10 + given[k]].text = ""}
        notNumber == {k \in DOMAIN given : parseInt(f[10 + given[k]]) = NaN}
        values == [k \in DOMAIN given |-> f[10 + given[k]].value]
        scored == chartType # "decision"
        nexts == IF scored THEN [k \in DOMAIN given |-> id[1] + 1] ELSE values
    IN  IF notNumber # {}
        THEN RowThrown(IF FirstIndex(notNumber) \in unset
                       THEN "target or point of a choice is not set"
                       ELSE "target or point of a choice is not a number")
        ELSE IF ~IsNum(id) \/ id[1] < 1
        THEN RowThrown("invalid question id")
        ELSE IF f[4].text = ""
        THEN RowThrown("no question sentence")
        ELSE IF Len(given) < 2
        THEN RowThrown("at least 2 choices are needed")
        ELSE IF Len(given) # Len(nexts)
        THEN RowThrown("choices and targets differ in number")
        ELSE RowParsed(
               [id |-> id[1],
                isLast |-> (f[2].text = "1"),
                category |-> IF f[3].text = "" THEN "default" ELSE f[3].text,
                sentence |-> f[4].text,
                choises |-> [k \in DOMAIN given |-> f[5 + given[k]].text],
                nexts |-> nexts,
                points |-> IF chartType \in {"single", "multi"}
                              /\ Len(values) > 0
                           THEN SomeList(values) ELSE NoList])

\* parseDiagnosisRow(fields, chartType)
parseDiagnosisRow(fields, chartType) ==
    LET f == Padded(fields, 5)
        id == parseInt(f[1])
        ranged == chartType \in {"single", "multi"}
    IN  IF ranged /\ f[3].text # "" /\ parseInt(f[3]) = NaN
        THEN RowThrown("lower point is not a number")
        ELSE IF ranged /\ f[4].text # "" /\ parseInt(f[4]) = NaN
        THEN RowThrown("upper point is not a number")
        ELSE IF ~IsNum(id) \/ id[1] < 1
        THEN RowThrown("invalid diagnosis id")
        ELSE IF f[5].text = ""
        THEN RowThrown("no display sentence")
        ELSE RowParsed(
               [id |-> id[1],
                category |-> IF f[2].text = "" THEN "default" ELSE f[2].text,
                lower |-> IF ranged /\ f[3].text # "" THEN f[3].value ELSE 0,
                upper |-> IF ranged /\ f[4].text # "" THEN f[4].value ELSE 0,
                sentence |-> f[5].text])

\* ValidationError
ValidationError(row, field, message) ==
    [row |-> row, field |-> field, message |-> message]

\* while (... lines[currentLineIndex].trim() === '') currentLineIndex++
\* from line p (lines are counted from 1, as the rows of the errors are)
RECURSIVE SkipBlankLines(_, _)
SkipBlankLines(lines, p) ==
    IF p <= Len(lines) /\ IsBlankLine(lines[p])
    THEN SkipBlankLines(lines, p + 1) ELSE p

\* The scan of a section: the objects parsed, the errors collected and the
\* line the scan has stopped at.
Scanned(rows, errors, stop) == [rows |-> rows, errors |-> errors, stop |-> stop]

\* the scan of the question rows given up at the first invalid row
RECURSIVE ScanQuestionRowsUntilError(_, _, _)
ScanQuestionRowsUntilError(lines, chartType, p) ==
    IF p > Len(lines) \/ IsBlankLine(lines[p])
    THEN Scanned(<<>>, <<>>, p)
    ELSE LET row == parseQuestionRow(lines[p], chartType)
             rest == ScanQuestionRowsUntilError(lines, chartType, p + 1)
         IN  IF lines[p][1].text = QuestionHeader THEN rest
             ELSE IF row.ok
             THEN Scanned(<<row.value>> \o rest.rows, rest.errors, rest.stop)
             ELSE Scanned(<<>>,
                          <<ValidationError(p, "question row", row.message)>>,
                          rest.stop)

\* The loop over the question rows, from line p to the next blank line.
RECURSIVE ScanQuestionRows(_, _, _)
ScanQuestionRows(lines, chartType, p) ==
    IF p > Len(lines) \/ IsBlankLine(lines[p])
    THEN Scanned(<<>>, <<>>, p)
    ELSE LET row == parseQuestionRow(lines[p], chartType)
             rest == ScanQuestionRows(lines, chartType, p + 1)
         IN  IF lines[p][1].text = QuestionHeader THEN rest
             ELSE IF row.ok
             THEN Scanned(<<row.value>> \o rest.rows, rest.errors, rest.stop)
             ELSE Scanned(rest.rows,
                          <<ValidationError(p, "question row", row.message)>>
                            \o rest.errors,
                          rest.stop)

\* The loop over the diagnosis rows, from line p to the end of the text.
RECURSIVE ScanDiagnosisRows(_, _, _)
ScanDiagnosisRows(lines, chartType, p) ==
    IF p > Len(lines)
    THEN Scanned(<<>>, <<>>, p)
    ELSE LET row == parseDiagnosisRow(lines[p], chartType)
             rest == ScanDiagnosisRows(lines, chartType, p + 1)
         IN  IF IsBlankLine(lines[p]) \/ lines[p][1].text = DiagnosisHeader
             THEN rest
             ELSE IF row.ok
             THEN Scanned(<<row.value>> \o rest.rows, rest.errors, rest.stop)
             ELSE Scanned(rest.rows,
                          <<ValidationError(p, "diagnosis row", row.message)>>
                            \o rest.errors,
                          rest.stop)

\* The outcome of a compilation: the chart returned, or the error thrown
\* with the rows it lists.
Compiled(c) == [ok |-> TRUE, chart |-> Some(c), message |-> "", errors |-> <<>>]

Thrown(message, errors) ==
    [ok |-> FALSE, chart |-> None, message |-> message, errors |-> errors]

\* the compilation with the collected errors thrown before the diagnosis
\* part is looked for
parseCSVToChartErrorsFirst(lines) ==
    IF Len(lines) < 5 THEN Thrown(ErrTooFewLines, <<>>)
    ELSE
    LET chartName == lines[1][1].text
        chartType == lines[2][1].text
        headErrors ==
            (IF chartName = ""
             THEN <<ValidationError(1, "chart name", "no chart name")>>
             ELSE <<>>)
            \o (IF chartType \notin {"decision", "single", "multi"}
                THEN <<ValidationError(2, "chart type", "unknown chart type")>>
                ELSE <<>>)
        questionPart == SkipBlankLines(lines, 3)
        questions == ScanQuestionRows(lines, chartType, questionPart + 1)
        diagnosisPart == SkipBlankLines(lines, questions.stop)
        diagnoses == ScanDiagnosisRows(lines, chartType, diagnosisPart)
        errors == headErrors \o questions.errors \o diagnoses.errors
    IN  IF questionPart > Len(lines) THEN Thrown(ErrNoQuestionPart, <<>>)
        ELSE IF headErrors \o questions.errors # <<>>
        THEN Thrown(ErrFormat, headErrors \o questions.errors)
        ELSE IF diagnosisPart > Len(lines) THEN Thrown(ErrNoDiagnosisPart, <<>>)
        ELSE IF errors # <<>> THEN Thrown(ErrFormat, errors)
        ELSE IF questions.rows = <<>> THEN Thrown(ErrNoQuestions, <<>>)
        ELSE IF diagnoses.rows = <<>> THEN Thrown(ErrNoDiagnoses, <<>>)
        ELSE Compiled([name |-> chartName, type |-> chartType,
                       questions |-> questions.rows,
                       diagnoses |-> diagnoses.rows])

\* parseCSVToChart(csvText), on the lines of csvText.  The chart name and
\* the chart type are the texts of the first two lines (lines of one field).
parseCSVToChart(lines) ==
    IF Len(lines) < 5 THEN Thrown(ErrTooFewLines, <<>>)
    ELSE
    LET chartName == lines[1][1].text
        chartType == lines[2][1].text
        headErrors ==
            (IF chartName = ""
             THEN <<ValidationError(1, "chart name", "no chart name")>>
             ELSE <<>>)
            \o (IF chartType \notin {"decision", "single", "multi"}
                THEN <<ValidationError(2, "chart type", "unknown chart type")>>
                ELSE <<>>)
        questionPart == SkipBlankLines(lines, 3)
        questions == ScanQuestionRows(lines, chartType, questionPart + 1)
        diagnosisPart == SkipBlankLines(lines, questions.stop)
        diagnoses == ScanDiagnosisRows(lines, chartType, diagnosisPart)
        errors == headErrors \o questions.errors \o diagnoses.errors
    IN  IF questionPart > Len(lines) THEN Thrown(ErrNoQuestionPart, <<>>)
        ELSE IF diagnosisPart > Len(lines) THEN Thrown(ErrNoDiagnosisPart, <<>>)
        ELSE IF errors # <<>> THEN Thrown(ErrFormat, errors)
        ELSE IF questions.rows = <<>> THEN Thrown(ErrNoQuestions, <<>>)
        ELSE IF diagnoses.rows = <<>> THEN Thrown(ErrNoDiagnoses, <<>>)
        ELSE Compiled([name |-> chartName, type |-> chartType,
                       questions |-> questions.rows,
                       diagnoses |-> diagnoses.rows])

(***************************************************************************)
(* The CSV texts compiled in the model.                                    *)
(***************************************************************************)
\* Largest number of rows in a section of a CSV text.
MaxRows == 2

\* The sequences over S of length at most n.
SeqsUpTo(S, n) == UNION {[1..k -> S] : k \in 0..n}

\* A question line: id, final flag, category, sentence, five choice texts
\* and five targets (or points).
QuestionLine(id, last, category, sentence, choices, targets) ==
    <<id, last, category, sentence>> \o Padded(choices, 5) \o Padded(targets, 5)

\* Question lines: two valid ones (2 and 5 choices), one with id 0, one with
\* a single choice, one with a choice that has no target.
QuestionLines ==
    { QuestionLine(NumberField(1), EmptyField, EmptyField, TextField("q"),
                   <<TextField("yes"), TextField("no")>>,
                   <<NumberField(2), NumberField(7)>>),
      QuestionLine(NumberField(2), NumberField(1), TextField("A"),
                   TextField("q"),
                   <<TextField("a"), TextField("b"), TextField("c"),
                     TextField("d"), TextField("e")>>,
                   <<NumberField(7), NumberField(8), NumberField(7),
                     NumberField(8), NumberField(7)>>),
      QuestionLine(NumberField(0), EmptyField, EmptyField, TextField("q"),
                   <<TextField("yes"), TextField("no")>>,
                   <<NumberField(2), NumberField(7)>>),
      QuestionLine(NumberField(3), NumberField(1), EmptyField, TextField("q"),
                   <<TextField("yes")>>, <<NumberField(7)>>),
      QuestionLine(NumberField(3), NumberField(1), EmptyField, TextField("q"),
                   <<TextField("yes"), TextField("no")>>,
                   <<NumberField(7), TextField("x")>>) }

\* Diagnosis lines: id, category, lower, upper, sentence.  One valid line,
\* one whose lower point is no number, one without sentence.
DiagnosisLines ==
    { <<NumberField(7), EmptyField, NumberField(0), NumberField(3),
        TextField("d")>>,
      <<NumberField(8), TextField("A"), TextField("x"), NumberField(6),
        TextField("d")>>,
      <<NumberField(8), TextField("A"), NumberField(2), NumberField(6)>> }

\* The first two lines: chart name and chart type.
HeadLines ==
    { <<(<<TextField("chart")>>), (<<TextField(t)>>)>> :
        t \in {"decision", "single", "multi"} }
      \cup { <<(<<EmptyField>>), (<<TextField("point")>>)>> }

BlankLine == <<EmptyField>>

QuestionHeaderLine == <<TextField(QuestionHeader), TextField("final")>>

DiagnosisHeaderLine == <<TextField(DiagnosisHeader), TextField("category")>>

\* A text with both sections: with their header lines; without header
\* lines; with the question section directly after the chart type and a
\* blank line at the end.
FullLayouts == {"headers", "bare", "tight"}

FullText(layout, head, qs, ds) ==
    CASE layout = "headers" ->
           head \o <<BlankLine, QuestionHeaderLine>> \o qs
                \o <<BlankLine, DiagnosisHeaderLine>> \o ds
      [] layout = "bare" ->
           head \o <<BlankLine>> \o qs \o <<BlankLine>> \o ds
      [] layout = "tight" ->
           head \o <<QuestionHeaderLine>> \o qs \o <<BlankLine>> \o ds
                \o <<BlankLine>>

\* A text without diagnosis section: the question section alone, without
\* and with a blank line after it; no section at all; texts of fewer than 5
\* lines.
PartLayouts == {"questions", "questions-blank", "blank", "short", "head"}

PartText(layout, head, qs) ==
    CASE layout = "questions" ->
           head \o <<BlankLine, QuestionHeaderLine>> \o qs
      [] layout = "questions-blank" ->
           head \o <<BlankLine, QuestionHeaderLine>> \o qs \o <<BlankLine>>
      [] layout = "blank" -> head \o <<BlankLine, BlankLine, BlankLine>>
      [] layout = "short" -> head \o <<BlankLine>>
      [] layout = "head" -> head

(***************************************************************************)
(* ChartCreate: the CSV file dropped on the page is compiled; the page     *)
(* holds the chart (chartData) or the error.                               *)
(***************************************************************************)
\* The application with no run begun, offering the chart c.
AppIdle(c) ==
    /\ chart = c
    /\ screen = "selection"
    /\ loading = TRUE
    /\ selectedChart = FALSE
    /\ storedResult = None
    /\ chartData = FALSE
    /\ currentResult = None
    /\ currentQuestion = 0
    /\ isTransitioning = FALSE
    /\ isFinalTransition = FALSE
    /\ error = ""
    /\ questionTimer = 0
    /\ navigateTimer = FALSE
    /\ diagnosis = 0
    /\ previousResult = None

InitCreate ==
    /\ AppIdle(CHOOSE c \in DecisionCharts : TRUE)
    /\ \E head \in HeadLines, qs \in SeqsUpTo(QuestionLines, MaxRows) :
          \/ \E layout \in FullLayouts, ds \in SeqsUpTo(DiagnosisLines, MaxRows) :
                droppedFile = FullText(layout, head, qs, ds)
          \/ \E layout \in PartLayouts :
                droppedFile = PartText(layout, head, qs)
    /\ createChartData = None
    /\ createError = None
    /\ chartDiagram = None
    /\ listedChart = None
    /\ StoreIdle
    /\ SyncIdle
    /\ CryptoIdle
    /\ ToolIdle

\* ChartCreate.onDrop, the file having the extension .csv
onDrop ==
    LET parsedChart == parseCSVToChart(droppedFile)
    IN  /\ IF parsedChart.ok
           THEN /\ createChartData' = parsedChart.chart
                /\ createError' = None
           ELSE /\ createChartData' = None
                /\ createError' = Some([message |-> parsedChart.message,
                                        errors |-> parsedChart.errors])
        /\ UNCHANGED <<appVars, droppedFile, chartDiagram, listedChart, storeVars,
                       syncVars, cryptoVars, toolVars>>

\* ChartCreate.handleResetFile
handleResetFile ==
    /\ createChartData # None \/ createError # None
    /\ createChartData' = None
    /\ createError' = None
    /\ UNCHANGED <<appVars, droppedFile, chartDiagram, listedChart, storeVars,
                       syncVars, cryptoVars, toolVars>>

(***************************************************************************)
(* The chart on the wire.  A JSON object is a function of its keys; a key  *)
(* whose value is undefined is not written by JSON.stringify, a key that   *)
(* is absent or null leaves the zero value in the Go structure, and        *)
(* json.Marshal writes every field but an empty one tagged omitempty.      *)
(***************************************************************************)
\* The object without the keys in absent.
Without(object, absent) == [k \in DOMAIN object \ absent |-> object[k]]

\* JSON.stringify of an IQuestion of the setting application
StringifyQuestion(q) ==
    Without([id |-> q.id, isLast |-> q.isLast, category |-> q.category,
             sentence |-> q.sentence, choises |-> SomeList(q.choises),
             nexts |-> SomeList(q.nexts), points |-> q.points],
            IF q.points = NoList THEN {"points"} ELSE {})

\* JSON.stringify(chartData): registerChart, the body of POST /api/register
StringifyChart(c) ==
    [name |-> c.name, type |-> c.type,
     questions |-> [k \in DOMAIN c.questions |-> StringifyQuestion(c.questions[k])],
     diagnoses |-> c.diagnoses]

\* The value of a key of a JSON object in a Go field: absent or null leaves
\* the zero value.
Field(object, key, zero) ==
    IF key \in DOMAIN object
    THEN (IF object[key] = Null THEN zero ELSE object[key])
    ELSE zero

\* c.ShouldBindJSON(&requestData): the structure IQuestion (a nil slice is
\* NoList)
BindQuestion(object) ==
    [ID |-> object.id, IsLast |-> object.isLast, Category |-> object.category,
     Sentence |-> object.sentence,
     Choises |-> Field(object, "choises", NoList),
     Nexts |-> Field(object, "nexts", NoList),
     Points |-> Field(object, "points", NoList)]

\* c.ShouldBindJSON(&requestData): the structure IChart
BindChart(object) ==
    [Name |-> object.name, Type |-> object.type,
     Questions |-> [k \in DOMAIN object.questions |->
                      BindQuestion(object.questions[k])],
     Diagnoses |-> [k \in DOMAIN object.diagnoses |->
                      [ID |-> object.diagnoses[k].id,
                       Category |-> object.diagnoses[k].category,
                       Lower |-> object.diagnoses[k].lower,
                       Upper |-> object.diagnoses[k].upper,
                       Sentence |-> object.diagnoses[k].sentence]]]

\* json.Marshal of a slice: null for a nil slice
MarshalSlice(slice) == IF slice = NoList THEN Null ELSE slice

\* points is written as null when it is empty.
MarshalQuestionAllFields(q) ==
    [id |-> q.ID, isLast |-> q.IsLast, category |-> q.Category,
     sentence |-> q.Sentence, choises |-> MarshalSlice(q.Choises),
     nexts |-> MarshalSlice(q.Nexts), points |-> MarshalSlice(q.Points)]

\* json.Marshal of an IQuestion: points has the tag omitempty
MarshalQuestion(q) ==
    Without([id |-> q.ID, isLast |-> q.IsLast, category |-> q.Category,
             sentence |-> q.Sentence, choises |-> MarshalSlice(q.Choises),
             nexts |-> MarshalSlice(q.Nexts), points |-> MarshalSlice(q.Points)],
            IF q.Points = NoList \/ q.Points = SomeList(<<>>)
            THEN {"points"} ELSE {})

\* json.Marshal(requestData): the diagram of the chart
MarshalChart(c) ==
    [name |-> c.Name, type |-> c.Type,
     questions |-> [k \in DOMAIN c.Questions |-> MarshalQuestion(c.Questions[k])],
     diagnoses |-> [k \in DOMAIN c.Diagnoses |->
                      [id |-> c.Diagnoses[k].ID,
                       category |-> c.Diagnoses[k].Category,
                       lower |-> c.Diagnoses[k].Lower,
                       upper |-> c.Diagnoses[k].Upper,
                       sentence |-> c.Diagnoses[k].Sentence]]]

\* An array of a parsed object: the array, null, or undefined.
ParsedArray(object, key) ==
    IF key \in DOMAIN object
    THEN (IF object[key] = Null THEN Null ELSE object[key][1])
    ELSE Undefined

\* parseChartData: JSON.parse(chartJson) as IChart
parseChartData(object) ==
    [name |-> object.name, type |-> object.type,
     questions |->
       [k \in DOMAIN object.questions |->
          LET q == object.questions[k]
          IN  [id |-> q.id, isLast |-> q.isLast, category |-> q.category,
               sentence |-> q.sentence,
               choises |-> ParsedArray(q, "choises"),
               nexts |-> ParsedArray(q, "nexts"),
               points |-> IF "points" \in DOMAIN q THEN q.points ELSE NoList]],
     diagnoses |-> object.diagnoses]

\* ChartCreate.handleSaveChart: registerChart(chartData).  The request is
\* refused (the limit, the name, an error of the database) or the diagram
\* is stored in table chart.
handleSaveChart ==
    /\ createChartData # None
    /\ chartDiagram = None
    /\ \E accepted \in BOOLEAN :
         IF accepted
         THEN /\ chartDiagram' =
                    Some(MarshalChart(BindChart(StringifyChart(createChartData[1]))))
              /\ UNCHANGED createError
         ELSE /\ createError' = Some([message |-> "registration failed",
                                      errors |-> <<>>])
              /\ UNCHANGED chartDiagram
    /\ UNCHANGED <<droppedFile, createChartData, listedChart>>
    /\ UNCHANGED <<appVars, storeVars, syncVars, cryptoVars, toolVars>>

\* GetChartsHandler and the chart application: fetchCharts, parseChartData
fetchCharts ==
    /\ chartDiagram # None
    /\ listedChart = None
    /\ listedChart' = Some(parseChartData(chartDiagram[1]))
    /\ UNCHANGED <<droppedFile, createChartData, createError, chartDiagram>>
    /\ UNCHANGED <<appVars, storeVars, syncVars, cryptoVars, toolVars>>

NextCreate == onDrop \/ handleResetFile \/ handleSaveChart \/ fetchCharts

SpecCreate == InitCreate /\ [][NextCreate]_vars

(***************************************************************************)
(* The chart store of the backend (table chart) and its handlers.  Gin     *)
(* runs each request in a goroutine of its own and the handlers use no     *)
(* transaction and no lock, so the statements of concurrent requests       *)
(* interleave: each database statement of RegisterChartHandler is a step.  *)
(* A statement may fail (dbOk = FALSE): the handlers test its error.       *)
(***************************************************************************)
\* Largest number of registration requests in progress at a time.
MaxRequests == 2

Requests == 1..MaxRequests

\* The chart names of the requests.
Names == {"a", "b", "c", "d"}

\* db.Model(&Chart{}).Count(&count)
CountCharts(table) ==
    LET RECURSIVE Sum(_)
        Sum(S) == IF S = {} THEN 0
                  ELSE LET n == CHOOSE n \in S : TRUE
                       IN  table[n] + Sum(S \ {n})
    IN  Sum(Names)

InitStore ==
    /\ AppIdle(CHOOSE c \in DecisionCharts : TRUE)
    /\ CreateIdle
    /\ chartTable = [n \in Names |-> 0]
    /\ registerPc = [r \in Requests |-> "idle"]
    /\ registerName = [r \in Requests |-> ""]
    /\ registerStatus = [r \in Requests |-> 0]
    /\ SyncIdle
    /\ CryptoIdle
    /\ ToolIdle

\* The request r is answered with the status code; its data are dropped.
Answered(r, code) ==
    /\ registerPc' = [registerPc EXCEPT ![r] = "done"]
    /\ registerStatus' = [registerStatus EXCEPT ![r] = code]
    /\ registerName' = [registerName EXCEPT ![r] = ""]

\* RegisterChartHandler, c.ShouldBindJSON: a new request arrives
RegisterBind(r) ==
    /\ registerPc[r] \in {"idle", "done"}
    /\ \/ Answered(r, 400)
       \/ \E name \in Names :
            /\ registerPc' = [registerPc EXCEPT ![r] = "count"]
            /\ registerName' = [registerName EXCEPT ![r] = name]
            /\ registerStatus' = [registerStatus EXCEPT ![r] = 0]
    /\ UNCHANGED chartTable
    /\ UNCHANGED <<appVars, createVars, syncVars, cryptoVars, toolVars>>

\* RegisterChartHandler: the count of the charts and the test count >= 3
RegisterCount(r) ==
    /\ registerPc[r] = "count"
    /\ \E dbOk \in BOOLEAN :
         IF ~dbOk THEN Answered(r, 500)
         ELSE IF CountCharts(chartTable) >= 3 THEN Answered(r, 400)
         ELSE /\ registerPc' = [registerPc EXCEPT ![r] = "find"]
              /\ UNCHANGED <<registerName, registerStatus>>
    /\ UNCHANGED chartTable
    /\ UNCHANGED <<appVars, createVars, syncVars, cryptoVars, toolVars>>

\* RegisterChartHandler: the search for a chart of the same name; the
\* request is refused when the statement returns no error (err == nil)
RegisterFind(r) ==
    /\ registerPc[r] = "find"
    /\ \E dbOk \in BOOLEAN :
         IF dbOk /\ chartTable[registerName[r]] > 0 THEN Answered(r, 400)
         ELSE /\ registerPc' = [registerPc EXCEPT ![r] = "create"]
              /\ UNCHANGED <<registerName, registerStatus>>
    /\ UNCHANGED chartTable
    /\ UNCHANGED <<appVars, createVars, syncVars, cryptoVars, toolVars>>

\* RegisterChartHandler: db.Create(&chart)
RegisterCreate(r) ==
    /\ registerPc[r] = "create"
    /\ \E dbOk \in BOOLEAN :
         IF dbOk
         THEN /\ chartTable' = [chartTable EXCEPT ![registerName[r]] = @ + 1]
              /\ Answered(r, 200)
         ELSE /\ UNCHANGED chartTable
              /\ Answered(r, 500)
    /\ UNCHANGED <<appVars, createVars, syncVars, cryptoVars, toolVars>>

\* DeleteChartHandler: one statement deletes the charts of the name (the
\* answer is 200, 404 when no row was deleted, 500 when the statement fails)
DeleteChartHandler(chartName) ==
    /\ \E dbOk \in BOOLEAN :
         IF dbOk /\ chartTable[chartName] > 0
         THEN chartTable' = [chartTable EXCEPT ![chartName] = 0]
         ELSE UNCHANGED chartTable
    /\ UNCHANGED <<registerPc, registerName, registerStatus>>
    /\ UNCHANGED <<appVars, createVars, syncVars, cryptoVars, toolVars>>

NextStore ==
    \/ \E r \in Requests : RegisterBind(r)
    \/ \E r \in Requests : RegisterCount(r)
    \/ \E r \in Requests : RegisterFind(r)
    \/ \E r \in Requests : RegisterCreate(r)
    \/ \E chartName \in Names : DeleteChartHandler(chartName)

SpecStore == InitStore /\ [][NextStore]_vars

(***************************************************************************)
(* The delivery of completed runs: ResultDisplay.handleFinish sends the    *)
(* run with saveResult (POST /api/save, SaveResultHandler) and keeps it in *)
(* the offline queue (IndexedDB store offlineResults) when the sending     *)
(* fails; syncOfflineResults sends the queued runs when the chart list is  *)
(* loaded.  The server keeps one row of table result per accepted request. *)
(***************************************************************************)
\* Largest number of completed runs.
MaxRuns == 1

\* Largest number of synchronisations in progress at a time (the chart list
\* loaded in two windows, or the mount effect run twice).
MaxSyncs == 2

\* Largest number of result records of one run (requests beyond it are not
\* sent in the model).
MaxRecords == 2

Runs == 1..MaxRuns

Syncs == 1..MaxSyncs

\* What becomes of one POST /api/save: the request does not reach the
\* server; SaveResultHandler answers 400 (ShouldBindJSON); it answers 500
\* because GenerateRandomString fails, because EncryptImage fails, or
\* because the record is not inserted (json.Marshal, db.Create); it inserts
\* the record and answers 500 because the photo file cannot be written
\* (os.MkdirAll, os.WriteFile); it answers 200 and the answer is lost on the
\* way; it answers 200 and the client receives it.
PostOutcomes ==
    {"unreachable", "bad-json", "passphrase-failed", "encrypt-failed",
     "record-failed", "photo-failed", "ok-lost", "ok"}

\* The record is inserted before the photo is encrypted.
RecordInsertedEarly(outcome) ==
    outcome \in {"encrypt-failed", "photo-failed", "ok-lost", "ok"}

\* SaveResultHandler: db.Create(&result) has been executed
RecordInserted(outcome) == outcome \in {"photo-failed", "ok-lost", "ok"}

\* SaveResultHandler: os.WriteFile(photoFilePath, ...) has been executed
PhotoWritten(outcome) == outcome \in {"ok-lost", "ok"}

\* fetch has resolved and response.ok is true
ResponseOk(outcome) == outcome = "ok"

\* What the handler answers (c.JSON): the status and which step failed.
Answer(outcome) ==
    CASE outcome = "bad-json" -> "400"
      [] outcome = "passphrase-failed" -> "500 passphrase"
      [] outcome = "encrypt-failed" -> "500 encryption"
      [] outcome = "record-failed" -> "500 record"
      [] outcome = "photo-failed" -> "500 photo"
      [] OTHER -> "200"

\* The state of the server after a request for the run with the outcome.
SaveResultHandler(run, outcome) ==
    /\ resultTable' = [resultTable EXCEPT
                         ![run] = IF RecordInserted(outcome) THEN @ + 1 ELSE @]
    /\ photoFiles' = [photoFiles EXCEPT
                        ![run] = IF PhotoWritten(outcome) THEN @ + 1 ELSE @]
    /\ saveAnswer' = IF outcome = "unreachable" THEN saveAnswer
                     ELSE Answer(outcome)

\* indexedDBHelper.getOfflineResults(): the entries in the order of their keys
RECURSIVE InKeyOrder(_)
InKeyOrder(entries) ==
    IF entries = {} THEN <<>>
    ELSE LET first == CHOOSE e \in entries : \A o \in entries : e.id <= o.id
         IN  <<first>> \o InKeyOrder(entries \ {first})

InitSync ==
    /\ AppIdle(CHOOSE c \in DecisionCharts : TRUE)
    /\ CreateIdle
    /\ StoreIdle
    /\ resultTable = [run \in Runs |-> 0]
    /\ photoFiles = [run \in Runs |-> 0]
    /\ offlineResults = {}
    /\ offlineSeq = 1
    /\ runState = [run \in Runs |-> "none"]
    /\ syncList = [s \in Syncs |-> <<>>]
    /\ syncDeleting = [s \in Syncs |-> FALSE]
    /\ saveAnswer = ""
    /\ CryptoIdle
    /\ ToolIdle

\* A run is completed on the device (one run at a time is in local storage).
CompleteRun(run) ==
    /\ runState[run] = "none"
    /\ \A other \in Runs : runState[other] # "completed"
    /\ runState' = [runState EXCEPT ![run] = "completed"]
    /\ UNCHANGED <<resultTable, photoFiles, offlineResults, offlineSeq, syncList,
                   syncDeleting, saveAnswer>>
    /\ UNCHANGED <<appVars, createVars, storeVars, cryptoVars, toolVars>>

\* ResultDisplay.handleFinish: saveResult(currentResult), which saves the
\* run in the offline queue when the sending fails; when that fails too,
\* handleFinish tries the offline queue once more and then shows an error.
handleFinish(run) ==
    /\ runState[run] = "completed"
    /\ resultTable[run] < MaxRecords
    /\ \E outcome \in PostOutcomes, added \in BOOLEAN :
         /\ SaveResultHandler(run, outcome)
         /\ IF ResponseOk(outcome)
            THEN /\ runState' = [runState EXCEPT ![run] = "saved"]
                 /\ UNCHANGED <<offlineResults, offlineSeq>>
            ELSE IF added
            THEN /\ offlineResults' =
                       offlineResults \cup {[id |-> offlineSeq, run |-> run]}
                 /\ offlineSeq' = offlineSeq + 1
                 /\ runState' = [runState EXCEPT ![run] = "saved"]
            ELSE UNCHANGED <<offlineResults, offlineSeq, runState>>
    /\ UNCHANGED <<syncList, syncDeleting>>
    /\ UNCHANGED <<appVars, createVars, storeVars, cryptoVars, toolVars>>

\* ChartSelection, mount effect: clearAllStorage() removes the run that is
\* in local storage.  The selection screen is mounted from the result screen
\* by handleBackToSelection (the button of the error display), from the
\* chart screen by handleExit, and by its address.
clearAllStorage(run) ==
    /\ runState[run] = "completed"
    /\ runState' = [runState EXCEPT ![run] = "dropped"]
    /\ UNCHANGED <<resultTable, photoFiles, offlineResults, offlineSeq, syncList,
                   syncDeleting, saveAnswer>>
    /\ UNCHANGED <<appVars, createVars, storeVars, cryptoVars, toolVars>>

\* syncOfflineResults: getOfflineResults() reads the queue
SyncRead(s) ==
    /\ syncList[s] = <<>>
    /\ offlineResults # {}
    /\ syncList' = [syncList EXCEPT ![s] = InKeyOrder(offlineResults)]
    /\ UNCHANGED <<resultTable, photoFiles, offlineResults, offlineSeq, runState,
                   syncDeleting, saveAnswer>>
    /\ UNCHANGED <<appVars, createVars, storeVars, cryptoVars, toolVars>>

\* A loop that deletes the entry after any answer of the server.
SyncSendAnyAnswer(s) ==
    /\ syncList[s] # <<>>
    /\ ~syncDeleting[s]
    /\ resultTable[Head(syncList[s]).run] < MaxRecords
    /\ \E outcome \in PostOutcomes :
         /\ SaveResultHandler(Head(syncList[s]).run, outcome)
         /\ IF outcome # "unreachable"
            THEN /\ syncDeleting' = [syncDeleting EXCEPT ![s] = TRUE]
                 /\ UNCHANGED syncList
            ELSE /\ syncList' = [syncList EXCEPT ![s] = Tail(@)]
                 /\ UNCHANGED syncDeleting
    /\ UNCHANGED <<offlineResults, offlineSeq, runState>>
    /\ UNCHANGED <<appVars, createVars, storeVars, cryptoVars, toolVars>>

\* syncOfflineResults, one turn of the loop: the entry is sent.  The loop of
\* api.ts tests response.ok itself: when the answer is not ok the entry is
\* left in the queue and the loop goes on.  The loop of ChartSelection.tsx
\* sends with saveResult, whose fallback adds the entry under its own key:
\* that fails, and the loop goes on, while the key is in the queue; when
\* another synchronisation has removed the key, the entry is added again,
\* saveResult returns and the loop deletes the entry.
SyncSend(s) ==
    /\ syncList[s] # <<>>
    /\ ~syncDeleting[s]
    /\ resultTable[Head(syncList[s]).run] < MaxRecords
    /\ \E outcome \in PostOutcomes, viaSaveResult \in BOOLEAN :
         /\ SaveResultHandler(Head(syncList[s]).run, outcome)
         /\ IF ResponseOk(outcome)
            THEN /\ syncDeleting' = [syncDeleting EXCEPT ![s] = TRUE]
                 /\ UNCHANGED <<syncList, offlineResults>>
            ELSE IF viaSaveResult
                    /\ \A e \in offlineResults : e.id # Head(syncList[s]).id
            THEN /\ offlineResults' = offlineResults \cup {Head(syncList[s])}
                 /\ syncDeleting' = [syncDeleting EXCEPT ![s] = TRUE]
                 /\ UNCHANGED syncList
            ELSE /\ syncList' = [syncList EXCEPT ![s] = Tail(@)]
                 /\ UNCHANGED <<syncDeleting, offlineResults>>
    /\ UNCHANGED <<offlineSeq, runState>>
    /\ UNCHANGED <<appVars, createVars, storeVars, cryptoVars, toolVars>>

\* A loop that goes on after an answer ok without deleting the entry.
SyncDeleteSkipped(s) ==
    /\ syncDeleting[s]
    /\ syncList' = [syncList EXCEPT ![s] = Tail(@)]
    /\ syncDeleting' = [syncDeleting EXCEPT ![s] = FALSE]
    /\ UNCHANGED <<resultTable, photoFiles, offlineResults, offlineSeq, runState,
                   saveAnswer>>
    /\ UNCHANGED <<appVars, createVars, storeVars, cryptoVars, toolVars>>

\* syncOfflineResults, after an answer ok: deleteOfflineResult(id)
SyncDelete(s) ==
    /\ syncDeleting[s]
    /\ offlineResults' = {e \in offlineResults : e.id # Head(syncList[s]).id}
    /\ syncList' = [syncList EXCEPT ![s] = Tail(@)]
    /\ syncDeleting' = [syncDeleting EXCEPT ![s] = FALSE]
    /\ UNCHANGED <<resultTable, photoFiles, offlineSeq, runState, saveAnswer>>
    /\ UNCHANGED <<appVars, createVars, storeVars, cryptoVars, toolVars>>

NextSync ==
    \/ \E run \in Runs : CompleteRun(run)
    \/ \E run \in Runs : handleFinish(run)
    \/ \E run \in Runs : clearAllStorage(run)
    \/ \E s \in Syncs : SyncRead(s)
    \/ \E s \in Syncs : SyncSend(s)
    \/ \E s \in Syncs : SyncDelete(s)

SpecSync == InitSync /\ [][NextSync]_vars

\* A turn of the loop at a time when the server is reachable and saves the
\* result: the request is answered with 200 and the answer arrives.
OkSend(s) ==
    /\ SyncSend(s)
    /\ SaveResultHandler(Head(syncList[s]).run, "ok")
    /\ syncDeleting'[s]

\* The synchronisations of the device whose deliveries are followed to
\* their end: the chart list loaded in two windows.
FairSyncs == {1, 2}

NextSyncFair ==
    \/ \E run \in Runs : CompleteRun(run)
    \/ \E run \in Runs : handleFinish(run)
    \/ \E run \in Runs : clearAllStorage(run)
    \/ \E s \in FairSyncs : SyncRead(s)
    \/ \E s \in FairSyncs : SyncSend(s)
    \/ \E s \in FairSyncs : SyncDelete(s)

\* The synchronisation under the conditions of delivery: while entries are
\* queued the chart list is loaded again (fetchCharts calls
\* syncOfflineResults), among the loads there are some at a time when the
\* server is reachable, and the loop, an async function, goes on after each
\* answer.
SpecSyncFair ==
    /\ InitSync
    /\ [][NextSyncFair]_vars
    /\ \A s \in FairSyncs :
         WF_vars(SyncRead(s)) /\ SF_vars(OkSend(s)) /\ WF_vars(SyncDelete(s))

(***************************************************************************)
(* The photo encryption: EncryptImage of the backend (AES-256 in CTR mode, *)
(* the initialisation vector in front of the ciphertext) and the decrypt   *)
(* functions of the backend and of the aggregation tool.  A byte is a      *)
(* number in 0..255, a base64 text a sequence of symbols: the values 0..63 *)
(* of the alphabet, Pad for '=' and Illegal for any other character.       *)
(***************************************************************************)
\* Largest number of bytes of a photo.
MaxBytes == 3

\* aes.BlockSize
BlockSize == 16

Pad == 64

Illegal == 65

\* The answer of a function that returns a value and an error.
Ok(value) == [ok |-> TRUE, value |-> value]

Err == [ok |-> FALSE, value |-> <<>>]

\* a XOR b on the lowest n bits
RECURSIVE XorBits(_, _, _)
XorBits(a, b, n) ==
    IF n = 0 THEN 0
    ELSE (((a % 2) + (b % 2)) % 2) + 2 * XorBits(a \div 2, b \div 2, n - 1)

\* base64.StdEncoding.DecodeString, one group of four symbols
DecodeQuantum(q, isLast) ==
    LET b1 == (q[1] * 4 + (q[2] \div 16)) % 256
        b2 == ((q[2] % 16) * 16 + (q[3] \div 4)) % 256
        b3 == ((q[3] % 4) * 64 + q[4]) % 256
    IN  IF \E k \in 1..4 : q[k] = Illegal THEN Err
        ELSE IF \A k \in 1..4 : q[k] # Pad THEN Ok(<<b1, b2, b3>>)
        ELSE IF ~isLast \/ q[1] = Pad \/ q[2] = Pad THEN Err
        ELSE IF q[3] = Pad /\ q[4] = Pad THEN Ok(<<b1>>)
        ELSE IF q[3] # Pad /\ q[4] = Pad THEN Ok(<<b1, b2>>)
        ELSE Err

\* base64.StdEncoding.DecodeString
RECURSIVE DecodeString(_)
DecodeString(text) ==
    IF text = <<>> THEN Ok(<<>>)
    ELSE IF Len(text) < 4 THEN Err
    ELSE LET first == DecodeQuantum(SubSeq(text, 1, 4), Len(text) = 4)
             rest == DecodeString(SubSeq(text, 5, Len(text)))
         IN  IF first.ok /\ rest.ok THEN Ok(first.value \o rest.value)
             ELSE Err

\* base64.StdEncoding.EncodeToString
RECURSIVE EncodeToString(_)
EncodeToString(bytes) ==
    IF bytes = <<>> THEN <<>>
    ELSE LET n == Len(bytes)
             b1 == bytes[1]
             b2 == IF n >= 2 THEN bytes[2] ELSE 0
             b3 == IF n >= 3 THEN bytes[3] ELSE 0
             s1 == b1 \div 4
             s2 == (b1 % 4) * 16 + (b2 \div 16)
             s3 == (b2 % 16) * 4 + (b3 \div 64)
             s4 == b3 % 64
         IN  IF n = 1 THEN <<s1, s2, Pad, Pad>>
             ELSE IF n = 2 THEN <<s1, s2, s3, Pad>>
             ELSE <<s1, s2, s3, s4>> \o EncodeToString(SubSeq(bytes, 4, n))

\* aes.NewCipher: the key must have 16, 24 or 32 bytes
NewCipher(key) == key.len \in {16, 24, 32}

RECURSIVE Digest(_)
Digest(bytes) ==
    IF bytes = <<>> THEN 7
    ELSE (Head(bytes) + (31 * Digest(Tail(bytes)))) % 256

\* cipher.NewCTR(block, iv): byte i (from 0) of the key stream.  The block
\* cipher is a fixed function of the key and of the counter block, which is
\* iv plus the number of the block.
KeyStream(key, iv, i) ==
    ((key.seed * 31) + (Digest(iv) * 17) + ((i \div BlockSize) * 13)
       + ((i % BlockSize) * 7) + 11) % 256

\* stream.XORKeyStream(dst, src)
XORKeyStream(key, iv, src) ==
    [i \in 1..Len(src) |-> XorBits(src[i], KeyStream(key, iv, i - 1), 8)]

\* EncryptImage (the backend); iv and randOk are what rand.Reader gives
EncryptImage(imageBase64, key, iv, randOk) ==
    LET imageData == DecodeString(imageBase64)
    IN  IF ~imageData.ok THEN Err
        ELSE IF ~NewCipher(key) THEN Err
        ELSE IF ~randOk THEN Err
        ELSE Ok(iv \o XORKeyStream(key, iv, imageData.value))

\* The ciphertext is taken from the last byte of the vector on.
decryptAES256CTRFromVector(encryptedData, key) ==
    IF ~NewCipher(key) THEN Err
    ELSE IF Len(encryptedData) < BlockSize THEN Err
    ELSE Ok(XORKeyStream(key, SubSeq(encryptedData, 1, BlockSize),
                         SubSeq(encryptedData, BlockSize,
                                Len(encryptedData))))

\* decryptAES256CTR (the aggregation tool)
decryptAES256CTR(encryptedData, key) ==
    IF ~NewCipher(key) THEN Err
    ELSE IF Len(encryptedData) < BlockSize THEN Err
    ELSE Ok(XORKeyStream(key, SubSeq(encryptedData, 1, BlockSize),
                         SubSeq(encryptedData, BlockSize + 1,
                                Len(encryptedData))))

\* DecryptImage (the backend, binary input): the plaintext in base64
DecryptImage(encryptedData, key) ==
    IF Len(encryptedData) < BlockSize THEN Err
    ELSE IF ~NewCipher(key) THEN Err
    ELSE Ok(EncodeToString(
              XORKeyStream(key, SubSeq(encryptedData, 1, BlockSize),
                           SubSeq(encryptedData, BlockSize + 1,
                                  Len(encryptedData)))))

\* DecryptImage (crypto.go, base64 input): for data shorter than a block it
\* returns "" together with err, which is nil after the decoding succeeded.
DecryptImageBase64(encryptedBase64, key) ==
    LET data == DecodeString(encryptedBase64)
    IN  IF ~data.ok THEN Err
        ELSE IF Len(data.value) < BlockSize THEN Ok(<<>>)
        ELSE IF ~NewCipher(key) THEN Err
        ELSE Ok(EncodeToString(
                  XORKeyStream(key, SubSeq(data.value, 1, BlockSize),
                               SubSeq(data.value, BlockSize + 1,
                                      Len(data.value)))))

\* The values of the bytes of a photo.
PlainBytes == {0, 65, 255}

\* HashPassphrase / generateAESKey give 32 bytes; a key of 7 bytes is one
\* that aes.NewCipher refuses.
Keys == {[len |-> 32, seed |-> 3], [len |-> 32, seed |-> 200],
         [len |-> 7, seed |-> 3]}

\* Initialisation vectors read from rand.Reader.
IVs == {[i \in 1..BlockSize |-> 0], [i \in 1..BlockSize |-> (i * 17) % 256]}

\* Texts that are not base64: a length that is no multiple of 4, a character
\* outside the alphabet, padding in the middle, padding only.
BadTexts == {<<16, 16, 16>>, <<16, Illegal, 16, 16>>, <<16, Pad, 16, 16>>,
             <<Pad, Pad, Pad, Pad>>, <<16, 16, Pad, Pad, 16, 16, 16, 16>>}

InitCrypto ==
    /\ AppIdle(CHOOSE c \in DecisionCharts : TRUE)
    /\ CreateIdle
    /\ StoreIdle
    /\ SyncIdle
    /\ ToolIdle
    /\ cryptoPlain \in SeqsUpTo(PlainBytes, MaxBytes)
    /\ cryptoPhoto \in {EncodeToString(cryptoPlain)} \cup BadTexts
    /\ cryptoKey \in Keys
    /\ encrypted = <<>>
    /\ decryptInput = <<>>
    /\ decrypted = <<>>

\* The photo of the request is encrypted.
Encrypt ==
    /\ encrypted = <<>>
    /\ \E iv \in IVs, randOk \in BOOLEAN :
         encrypted' = <<EncryptImage(cryptoPhoto, cryptoKey, iv, randOk)>>
    /\ UNCHANGED <<cryptoPlain, cryptoPhoto, cryptoKey, decryptInput, decrypted>>
    /\ UNCHANGED <<appVars, createVars, storeVars, syncVars, toolVars>>

\* The encrypted photo, or its first n bytes, is what the decrypt functions
\* are given.
Read ==
    /\ encrypted # <<>>
    /\ encrypted[1].ok
    /\ decryptInput = <<>>
    /\ \E n \in 0..Len(encrypted[1].value) :
         decryptInput' = <<SubSeq(encrypted[1].value, 1, n)>>
    /\ UNCHANGED <<cryptoPlain, cryptoPhoto, cryptoKey, encrypted, decrypted>>
    /\ UNCHANGED <<appVars, createVars, storeVars, syncVars, toolVars>>

Decrypted(fn, answer) ==
    /\ decrypted' = <<[fn |-> fn, ok |-> answer.ok, value |-> answer.value]>>
    /\ UNCHANGED <<cryptoPlain, cryptoPhoto, cryptoKey, encrypted, decryptInput>>
    /\ UNCHANGED <<appVars, createVars, storeVars, syncVars, toolVars>>

DecryptTool ==
    /\ decryptInput # <<>>
    /\ Decrypted("decryptAES256CTR", decryptAES256CTR(decryptInput[1], cryptoKey))

DecryptBackend ==
    /\ decryptInput # <<>>
    /\ Decrypted("DecryptImage", DecryptImage(decryptInput[1], cryptoKey))

DecryptBackendBase64 ==
    /\ decryptInput # <<>>
    /\ Decrypted("DecryptImage base64",
                 DecryptImageBase64(EncodeToString(decryptInput[1]), cryptoKey))

NextCrypto ==
    \/ Encrypt
    \/ Read
    \/ DecryptTool
    \/ DecryptBackend
    \/ DecryptBackendBase64

SpecCrypto == InitCrypto /\ [][NextCrypto]_vars

(***************************************************************************)
(* The aggregation tool: processAggregation writes the CSV file of a chart *)
(* (generateCSV, one row per result) and then decrypts the photo file of   *)
(* each result (decryptPhotos; the file is named by the result id) into    *)
(* the output directory.  An error returned by either ends the process     *)
(* with status 1.                                                          *)
(***************************************************************************)
\* Largest number of results of a chart.
MaxResults == 3

\* The key of the results of the model and a photo encrypted with it.
ToolKey == [len |-> 32, seed |-> 3]

ToolPhoto == <<65, 0, 255>>

EncryptedPhoto ==
    EncryptImage(EncodeToString(ToolPhoto), ToolKey,
                 [i \in 1..BlockSize |-> (i * 17) % 256], TRUE).value

\* The photo file of a result: there is none; the encrypted photo; its
\* first bytes only; a file that cannot be read.
PhotoFiles ==
    {[kind |-> "missing", data |-> <<>>],
     [kind |-> "file", data |-> EncryptedPhoto],
     [kind |-> "file", data |-> SubSeq(EncryptedPhoto, 1, 5)],
     [kind |-> "unreadable", data |-> <<>>]}

\* The charts of the table chart: one of each type, the legacy type point
\* included.  Category A has two diagnoses whose ranges meet at 3.
ToolCharts ==
    {IChart("decision",
            <<IQuestion(1, FALSE, "default", <<2, 3>>, NoList),
              IQuestion(2, TRUE, "default", <<7, 8>>, NoList)>>,
            <<IDiagnosis(7, "default", 0, 0), IDiagnosis(8, "default", 0, 0)>>)}
      \cup
    {IChart(t,
            <<IQuestion(1, FALSE, "A", <<2, 2>>, SomeList(<<1, 5>>)),
              IQuestion(2, FALSE, "B", <<3, 3>>, SomeList(<<1, 5>>)),
              IQuestion(3, TRUE, "A", <<4, 4>>, SomeList(<<1, 5>>))>>,
            <<IDiagnosis(7, "A", 0, 3), IDiagnosis(8, "B", 2, 6),
              IDiagnosis(9, "A", 3, 4)>>) : t \in {"single", "multi", "point"}}

\* The Point column of a record: the JSON text of an integer, of a list of
\* category points, the empty text, or another text.
PointInt(n) == [kind |-> "int", value |-> n]

PointArray(points) == [kind |-> "array", value |-> points]

\* The records of the table result (ResultID, Point, ChooseHistory: JSON or
\* not).
ResultRows ==
    {[ResultID |-> 7, Point |-> PointInt(3), history |-> "json"],
     [ResultID |-> 8, history |-> "json",
      Point |-> PointArray(<<IPoint("A", 7), IPoint("B", 14)>>)],
     [ResultID |-> 5, history |-> "json",
      Point |-> PointArray(<<IPoint("B", 1), IPoint("A", 10)>>)],
     [ResultID |-> 7, Point |-> PointInt(0), history |-> "text"],
     [ResultID |-> 8, Point |-> [kind |-> "other", value |-> 0],
      history |-> "json"]}

Result(row, file) ==
    [kind |-> file.kind, data |-> file.data, ResultID |-> row.ResultID,
     Point |-> row.Point, history |-> row.history]

\* The results of the model: every record with its photo file whole, and
\* the first two records with each of the photo files.
Results ==
    {Result(row, [kind |-> "file", data |-> EncryptedPhoto]) : row \in ResultRows}
      \cup {Result(row, file) :
              row \in {r \in ResultRows : r.ResultID = 7 /\ r.history = "json"}
                        \cup {r \in ResultRows : r.ResultID = 8
                                                   /\ r.Point.kind = "array"},
              file \in PhotoFiles}

InitTool ==
    /\ AppIdle(CHOOSE c \in DecisionCharts : TRUE)
    /\ CreateIdle
    /\ StoreIdle
    /\ SyncIdle
    /\ CryptoIdle
    /\ toolChart \in ToolCharts
    /\ toolResults \in SeqsUpTo(Results, MaxResults)
    /\ csvIndex = 0
    /\ csvRows = <<>>
    /\ toolExit = -1
    /\ toolIndex = 1
    /\ decryptedCount = 0
    /\ decryptedFiles = {}
    /\ toolWarnings = {}
    /\ toolError = 0

\* The categories of the questions of the chart, each once, in order.
Categories(c) ==
    Distinct([k \in DOMAIN c.questions |-> c.questions[k].category])

\* buildCSVHeader: the number of columns of the header
buildCSVHeader(c) ==
    IF c.type = "decision" THEN Ok(5)
    ELSE IF c.type \in {"single", "multi"} THEN Ok(2 + (3 * Len(Categories(c))))
    ELSE Err

\* A sentence written to a row: that of diagnosis k of the chart, or one of
\* the fixed texts of buildCSVRowPoint.
Sentence(k) == [kind |-> "sentence", diagnosis |-> k]

NoDiagnosisText == [kind |-> "no diagnosis", diagnosis |-> 0]

IncompleteText == [kind |-> "incomplete", diagnosis |-> 0]

SingleValueText == [kind |-> "single value", diagnosis |-> 0]

\* getResultText: the sentence of the diagnosis of a stored result, given
\* here by the place of the diagnosis in the chart (with its category for
\* a point of a multi chart).  result.ResultID is the text of an integer;
\* result.Point is the JSON text of an integer ("int"), of a list of
\* category points ("array") or of neither.
getResultText(result, c) ==
    IF c.type = "decision"
    THEN LET found == FirstIndex({k \in DOMAIN c.diagnoses :
                                    c.diagnoses[k].id = result.ResultID})
         IN  IF found = 0 THEN Err ELSE Ok(<<found>>)
    ELSE IF c.type \in {"single", "multi"}
    THEN IF result.Point.kind = "int"
         THEN LET singlePoint == result.Point.value
                  found == FirstIndex({k \in DOMAIN c.diagnoses :
                                         /\ singlePoint >= c.diagnoses[k].lower
                                         /\ singlePoint <= c.diagnoses[k].upper})
              IN  IF found = 0 THEN Err ELSE Ok(<<found>>)
         ELSE IF result.Point.kind = "array"
         THEN LET points == result.Point.value
                  scaledPoint(i) == IF points[i].point \div 2 > 5 THEN 5
                                    ELSE points[i].point \div 2
                  found(i) ==
                      FirstIndex({k \in DOMAIN c.diagnoses :
                                    /\ c.diagnoses[k].category = points[i].category
                                    /\ scaledPoint(i) >= c.diagnoses[k].lower
                                    /\ scaledPoint(i) <= c.diagnoses[k].upper})
                  texts == [i \in DOMAIN points |-> <<points[i].category, found(i)>>]
                  resultText == SelectSeq(texts, LAMBDA t : t[2] # 0)
              IN  IF resultText = <<>> THEN Err ELSE Ok(resultText)
         ELSE Err
    ELSE Err

\* buildCSVRowDecision: the result number, the sentence and the history
buildCSVRowDecision(result, c) ==
    LET resultText == getResultText(result, c)
    IN  IF ~resultText.ok THEN Err
        ELSE IF result.history # "json" THEN Err
        ELSE Ok(<<[category |-> "", point |-> result.ResultID,
                   text |-> Sentence(resultText.value[1])]>>)

\* the point of the category with the upper bound of the range excluded
CategoryCellHalfOpen(points, category, c) ==
    LET i == FirstIndex({k \in DOMAIN points : points[k].category = category})
        scaledPoint == IF points[i].point \div 2 > 5 THEN 5
                       ELSE points[i].point \div 2
        found == FirstIndex({k \in DOMAIN c.diagnoses :
                               /\ c.diagnoses[k].category = points[i].category
                               /\ scaledPoint >= c.diagnoses[k].lower
                               /\ scaledPoint < c.diagnoses[k].upper})
    IN  IF i = 0
        THEN [category |-> category, point |-> 0, text |-> NoDiagnosisText]
        ELSE [category |-> category, point |-> points[i].point,
              text |-> IF found = 0 THEN NoDiagnosisText ELSE Sentence(found)]

\* buildCSVRowPoint, the list form: the name, the point and the sentence of
\* one category
CategoryCell(points, category, c) ==
    LET i == FirstIndex({k \in DOMAIN points : points[k].category = category})
        scaledPoint == IF points[i].point \div 2 > 5 THEN 5
                       ELSE points[i].point \div 2
        found == FirstIndex({k \in DOMAIN c.diagnoses :
                               /\ c.diagnoses[k].category = points[i].category
                               /\ scaledPoint >= c.diagnoses[k].lower
                               /\ scaledPoint <= c.diagnoses[k].upper})
    IN  IF i = 0
        THEN [category |-> category, point |-> 0, text |-> NoDiagnosisText]
        ELSE [category |-> category, point |-> points[i].point,
              text |-> IF found = 0 THEN NoDiagnosisText ELSE Sentence(found)]

\* buildCSVRowPoint: three columns per category, and the history
buildCSVRowPoint(result, c) ==
    LET categories == Categories(c)
        point == result.Point
        cells ==
            IF point.kind = "empty" \/ point = PointInt(0)
            THEN [k \in DOMAIN categories |->
                    [category |-> categories[k], point |-> 0,
                     text |-> IncompleteText]]
            ELSE IF point.kind = "array"
            THEN [k \in DOMAIN categories |->
                    CategoryCell(point.value, categories[k], c)]
            ELSE [k \in DOMAIN categories |->
                    [category |-> categories[k], point |-> point.value,
                     text |-> SingleValueText]]
    IN  IF point.kind = "other" THEN Err
        ELSE IF result.history # "json" THEN Err
        ELSE Ok(cells)

buildCSVRow(result, c) ==
    IF c.type = "decision" THEN buildCSVRowDecision(result, c)
    ELSE IF c.type \in {"single", "multi"} THEN buildCSVRowPoint(result, c)
    ELSE Err

\* generateCSV up to the loop: the header is written, or the error of
\* buildCSVHeader ends the process
generateCSVHeader ==
    /\ toolExit = -1
    /\ csvIndex = 0
    /\ IF buildCSVHeader(toolChart).ok
       THEN csvIndex' = 1 /\ UNCHANGED toolExit
       ELSE toolExit' = 1 /\ UNCHANGED csvIndex
    /\ UNCHANGED <<toolChart, toolResults, csvRows, toolIndex, decryptedCount,
                   decryptedFiles, toolWarnings, toolError>>
    /\ UNCHANGED <<appVars, createVars, storeVars, syncVars, cryptoVars>>

\* generateCSV, one turn of the loop over the results
generateCSV ==
    /\ toolExit = -1
    /\ csvIndex \in 1..Len(toolResults)
    /\ LET csvRow == buildCSVRow(toolResults[csvIndex], toolChart)
       IN  IF csvRow.ok
           THEN /\ csvRows' = Append(csvRows,
                                     [id |-> csvIndex, cells |-> csvRow.value])
                /\ csvIndex' = csvIndex + 1
                /\ UNCHANGED toolExit
           ELSE /\ toolExit' = 1
                /\ UNCHANGED <<csvRows, csvIndex>>
    /\ UNCHANGED <<toolChart, toolResults, toolIndex, decryptedCount,
                   decryptedFiles, toolWarnings, toolError>>
    /\ UNCHANGED <<appVars, createVars, storeVars, syncVars, cryptoVars>>

\* decryptPhotoFile: os.ReadFile, decryptAES256CTR, os.WriteFile
decryptPhotoFile(file, writeOk) ==
    IF file.kind = "unreadable" THEN Err
    ELSE LET decryptedData == decryptAES256CTR(file.data, ToolKey)
         IN  IF decryptedData.ok /\ writeOk THEN decryptedData ELSE Err

\* A missing photo file ends the loop with an error.
decryptPhotosStrict ==
    /\ toolExit = -1
    /\ csvIndex = Len(toolResults) + 1
    /\ toolIndex <= Len(toolResults)
    /\ \E writeOk \in BOOLEAN :
         LET file == toolResults[toolIndex]
             written == decryptPhotoFile(file, writeOk)
         IN  IF file.kind # "missing" /\ written.ok
             THEN /\ decryptedFiles' = decryptedFiles \cup
                        {[id |-> toolIndex, data |-> written.value]}
                  /\ decryptedCount' = decryptedCount + 1
                  /\ toolIndex' = toolIndex + 1
                  /\ UNCHANGED <<toolWarnings, toolError, toolExit>>
             ELSE /\ toolError' = toolIndex
                  /\ toolExit' = 1
                  /\ UNCHANGED <<toolIndex, decryptedCount, decryptedFiles,
                                 toolWarnings>>
    /\ UNCHANGED <<toolChart, toolResults, csvIndex, csvRows>>
    /\ UNCHANGED <<appVars, createVars, storeVars, syncVars, cryptoVars>>

\* decryptPhotos, one turn of the loop over the results; its error ends the
\* process
decryptPhotos ==
    /\ toolExit = -1
    /\ csvIndex = Len(toolResults) + 1
    /\ toolIndex <= Len(toolResults)
    /\ \E writeOk \in BOOLEAN :
         LET file == toolResults[toolIndex]
             written == decryptPhotoFile(file, writeOk)
         IN  IF file.kind = "missing"
             THEN /\ toolWarnings' = toolWarnings \cup {toolIndex}
                  /\ toolIndex' = toolIndex + 1
                  /\ UNCHANGED <<decryptedCount, decryptedFiles, toolError,
                                 toolExit>>
             ELSE IF written.ok
             THEN /\ decryptedFiles' = decryptedFiles \cup
                        {[id |-> toolIndex, data |-> written.value]}
                  /\ decryptedCount' = decryptedCount + 1
                  /\ toolIndex' = toolIndex + 1
                  /\ UNCHANGED <<toolWarnings, toolError, toolExit>>
             ELSE /\ toolError' = toolIndex
                  /\ toolExit' = 1
                  /\ UNCHANGED <<toolIndex, decryptedCount, decryptedFiles,
                                 toolWarnings>>
    /\ UNCHANGED <<toolChart, toolResults, csvIndex, csvRows>>
    /\ UNCHANGED <<appVars, createVars, storeVars, syncVars, cryptoVars>>

\* processAggregation returns nil and main returns
processAggregation ==
    /\ toolExit = -1
    /\ csvIndex = Len(toolResults) + 1
    /\ toolIndex = Len(toolResults) + 1
    /\ toolExit' = 0
    /\ UNCHANGED <<toolChart, toolResults, csvIndex, csvRows, toolIndex,
                   decryptedCount, decryptedFiles, toolWarnings, toolError>>
    /\ UNCHANGED <<appVars, createVars, storeVars, syncVars, cryptoVars>>

NextTool ==
    \/ generateCSVHeader
    \/ generateCSV
    \/ decryptPhotos
    \/ processAggregation

SpecTool == InitTool /\ [][NextTool]_vars

(***************************************************************************)
(* Properties.  The definitions below restate the claims in terms of the   *)
(* state before and after a step; they do not use the handler's operators. *)
(***************************************************************************)
\* The question on display and the run state of the component.
ShownQuestion == chart.questions[currentQuestion]

\* The score of a run state r: its currentPoint, 0 when it has none.
ScoreOf(r) == IF Len(r.currentPoint) = 1 THEN r.currentPoint[1] ELSE 0

\* The point value of choice i (0-based) of question q.
DeltaOf(q, i) == IF q.points = <<>> THEN i + 1 ELSE q.points[1][i + 1]

\* The answer has been accepted: the new run state is in the component and
\* in local storage, and no error is shown.
Accepted == error' = "" /\ currentResult' = storedResult'

\* The answer has failed: an error is shown, the run state in the component
\* and in local storage is the one before the answer, no timer was started.
Failed ==
    /\ error' # ""
    /\ currentResult' = currentResult
    /\ storedResult' = storedResult
    /\ questionTimer' = questionTimer
    /\ navigateTimer' = navigateTimer
    /\ currentQuestion' = currentQuestion

\* The run has moved to the question with id target, keeping its diagnosis.
MovedTo(target) ==
    /\ Accepted
    /\ currentResult'[1].currentQId = <<target>>
    /\ questionTimer' # 0
    /\ chart.questions[questionTimer'].id = target
    /\ currentResult'[1].diagnosisId = currentResult[1].diagnosisId

\* The run has been completed with diagnosis id target.
CompletedWith(target) ==
    /\ Accepted
    /\ currentResult'[1].diagnosisId = <<target>>
    /\ navigateTimer'

\* C1: in a decision chart, answering choice i on a question that is not
\* final makes the question with id nexts[i] the current one and leaves the
\* score unchanged; answering choice i on a final question completes the
\* run with diagnosis id nexts[i].  With question 1 choice 2 -> 3 and
\* question 3 (final) choice 1 -> 7, the two answers yield diagnosis id 7.
C1_Step ==
    \A i \in 0..4 :
      (ChoiceSelect(i) /\ chart.type = "decision") =>
        LET target == ShownQuestion.nexts[i + 1] IN
          IF ShownQuestion.isLast
          THEN CompletedWith(target)
          ELSE (\E k \in DOMAIN chart.questions : chart.questions[k].id = target)
                 => /\ MovedTo(target)
                    /\ ScoreOf(currentResult'[1]) = ScoreOf(currentResult[1])

C1_ScenarioA ==
    ( /\ chart.type = "decision"
      /\ storedResult # None
      /\ chart.questions[1].id = 1 /\ chart.questions[1].nexts[2] = 3
      /\ chart.questions[3].id = 3 /\ chart.questions[3].nexts[1] = 7
      /\ storedResult[1].history = <<IHistory(1, 1), IHistory(3, 0)>> )
    => storedResult[1].diagnosisId = <<7>>

C1_Decision == [][C1_Step]_vars /\ []C1_ScenarioA

C1_Witness ==
    /\ chart.type = "decision"
    /\ storedResult # None
    /\ storedResult[1].history = <<IHistory(1, 1), IHistory(3, 0)>>
    /\ storedResult[1].diagnosisId = <<7>>
    /\ screen = "result"

\* d's half-open range [lower, upper) contains the score s
InHalfOpen(d, s) == d.lower <= s /\ s < d.upper

\* d's closed range [lower, upper] contains the score s
InClosed(d, s) == d.lower <= s /\ s <= d.upper

\* C2: in a single chart, answering a final question completes the run with
\* the id of the first diagnosis in list order whose range [lower, upper)
\* contains old score + delta; if no range contains it the answer fails and
\* the run is not completed.
C2_Step ==
    \A i \in 0..4 :
      (ChoiceSelect(i) /\ chart.type = "single" /\ ShownQuestion.isLast) =>
        LET newScore == ScoreOf(currentResult[1]) + DeltaOf(ShownQuestion, i)
            matches == {k \in DOMAIN chart.diagnoses :
                          InHalfOpen(chart.diagnoses[k], newScore)}
        IN  IF matches = {}
            THEN Failed
            ELSE /\ \E k \in matches :
                      /\ \A j \in matches : k <= j
                      /\ CompletedWith(chart.diagnoses[k].id)
                 /\ ScoreOf(currentResult'[1]) = newScore

C2_SingleFinal == [][C2_Step]_vars

\* A completed single run whose score equals the upper bound of the first
\* diagnosis and the lower bound of none before it: the second is chosen.
C2_Witness ==
    /\ chart.type = "single"
    /\ screen = "chart"
    /\ navigateTimer
    /\ currentResult # None
    /\ ScoreOf(currentResult[1]) = chart.diagnoses[1].upper
    /\ currentResult[1].diagnosisId = <<chart.diagnoses[2].id>>

\* C3: in a chart of the legacy point type, the final answer selects the
\* first diagnosis whose closed range [lower, upper] contains the new score:
\* a score equal to upper matches.
C3_Step ==
    \A i \in 0..4 :
      (ChoiceSelect(i) /\ chart.type = "point" /\ ShownQuestion.isLast) =>
        LET newScore == ScoreOf(currentResult[1]) + DeltaOf(ShownQuestion, i)
            matches == {k \in DOMAIN chart.diagnoses :
                          InClosed(chart.diagnoses[k], newScore)}
        IN  IF matches = {}
            THEN Failed
            ELSE /\ \E k \in matches :
                      /\ \A j \in matches : k <= j
                      /\ CompletedWith(chart.diagnoses[k].id)
                 /\ ScoreOf(currentResult'[1]) = newScore

C3_PointFinal == [][C3_Step]_vars

\* A completed run of a point chart whose score equals the upper bound of
\* the diagnosis chosen.
C3_Witness ==
    /\ chart.type = "point"
    /\ screen = "chart"
    /\ navigateTimer
    /\ currentResult # None
    /\ ScoreOf(currentResult[1]) = chart.diagnoses[2].upper
    /\ currentResult[1].diagnosisId = <<chart.diagnoses[2].id>>

\* C4: in a single chart, answering choice i on a question that is not final
\* moves to the question with id currentId + 1, whatever nexts say, and adds
\* points[i] (i + 1 when the question has no points) to the score.
C4_Step ==
    \A i \in 0..4 :
      ( /\ ChoiceSelect(i) /\ chart.type = "single" /\ ~ShownQuestion.isLast
        /\ \E k \in DOMAIN chart.questions :
              chart.questions[k].id = ShownQuestion.id + 1 ) =>
        /\ MovedTo(ShownQuestion.id + 1)
        /\ currentResult'[1].currentPoint =
              <<ScoreOf(currentResult[1]) + DeltaOf(ShownQuestion, i)>>

C4_SingleNext == [][C4_Step]_vars

\* Scenario B: score 0, points [1, 5], index 1 answered on a question whose
\* nexts do not name id + 1: the run is at question id + 1 with score 5.
C4_Witness ==
    /\ chart.type = "single"
    /\ currentResult # None
    /\ chart.questions[1].points = <<(<<1, 5>>)>>
    /\ chart.questions[1].nexts[2] # chart.questions[1].id + 1
    /\ currentResult[1].history = <<IHistory(chart.questions[1].id, 1)>>
    /\ currentResult[1].currentQId = <<chart.questions[1].id + 1>>
    /\ currentResult[1].currentPoint = <<5>>

\* The categories of the score list pts are the distinct question categories
\* of the chart, each once, in the order of their first occurrence.
FirstPosition(category) ==
    CHOOSE k \in DOMAIN chart.questions :
        /\ chart.questions[k].category = category
        /\ \A j \in 1..(k - 1) : chart.questions[j].category # category

OnePerCategory(pts) ==
    /\ {pts[k].category : k \in DOMAIN pts}
          = {chart.questions[k].category : k \in DOMAIN chart.questions}
    /\ \A k, l \in DOMAIN pts :
          k < l => FirstPosition(pts[k].category) < FirstPosition(pts[l].category)

\* The point of category in the score list pts, 0 if it has no entry.
PointOf(pts, category) ==
    IF \E k \in DOMAIN pts : pts[k].category = category
    THEN (pts[CHOOSE k \in DOMAIN pts : pts[k].category = category]).point[1]
    ELSE 0

\* The score list of the run state r, empty when it has none.
ScoresOf(r) == IF r.currentPoints = <<>> THEN <<>> ELSE r.currentPoints[1]

\* C5: in a multi chart, an accepted answer adds the chosen delta to the
\* score entry of the answered question's category only, every other entry
\* keeps its prior value (0 if not yet present), and the score list holds
\* exactly one entry per distinct question category in order of first
\* occurrence.
C5_Step ==
    \A i \in 0..4 :
      (ChoiceSelect(i) /\ chart.type = "multi" /\ error' = "") =>
        LET old == ScoresOf(currentResult[1])
            new == ScoresOf(currentResult'[1])
        IN  /\ Accepted
            /\ OnePerCategory(new)
            /\ \A k \in DOMAIN new :
                  new[k].point =
                     << PointOf(old, new[k].category)
                          + (IF new[k].category = ShownQuestion.category
                             THEN DeltaOf(ShownQuestion, i) ELSE 0) >>

C5_MultiCategory == [][C5_Step]_vars

\* The first answer of a multi chart with categories B, A: index 0 of a
\* question of category B with points [2, 1] gives B = 2 and leaves A at 0.
C5_Witness ==
    /\ chart.type = "multi"
    /\ currentResult # None
    /\ chart.questions[1].category = "B"
    /\ chart.questions[1].points = <<(<<2, 1>>)>>
    /\ currentResult[1].history = <<IHistory(chart.questions[1].id, 0)>>
    /\ currentResult[1].currentPoints =
          <<(<<IPoint("B", <<2>>), IPoint("A", <<0>>)>>)>>

\* C6: in a multi chart, answering choice i on a final question completes
\* the run with diagnosis id nexts[i]; no point-range lookup takes part.
C6_Step ==
    \A i \in 0..4 :
      (ChoiceSelect(i) /\ chart.type = "multi" /\ ShownQuestion.isLast) =>
        CompletedWith(ShownQuestion.nexts[i + 1])

C6_MultiFinal == [][C6_Step]_vars

\* A completed multi run whose diagnosis id is the id of a diagnosis whose
\* range holds none of the run's scores.
C6_Witness ==
    /\ chart.type = "multi"
    /\ screen = "chart"
    /\ navigateTimer
    /\ currentResult # None
    /\ \E k \in DOMAIN chart.diagnoses :
          /\ currentResult[1].diagnosisId = <<chart.diagnoses[k].id>>
          /\ \A j \in DOMAIN ScoresOf(currentResult[1]) :
                ~InHalfOpen(chart.diagnoses[k],
                            ScoresOf(currentResult[1])[j].point[1])

\* No diagnosis of the chart has the id.
NoDiagnosis(id) == \A k \in DOMAIN chart.diagnoses : chart.diagnoses[k].id # id

\* No question of the chart has the id.
NoQuestion(id) == \A k \in DOMAIN chart.questions : chart.questions[k].id # id

\* C7 as stated: in a decision chart, answering a final question whose
\* target is the id of no diagnosis fails with a diagnosis-not-found error
\* and does not complete the run with that id.
C7_OriginalStep ==
    \A i \in 0..4 :
      ( /\ ChoiceSelect(i) /\ chart.type = "decision" /\ ShownQuestion.isLast
        /\ NoDiagnosis(ShownQuestion.nexts[i + 1]) ) =>
        /\ error' # ""
        /\ currentResult'[1].diagnosisId # <<ShownQuestion.nexts[i + 1]>>
        /\ storedResult'[1].diagnosisId # <<ShownQuestion.nexts[i + 1]>>

C7_AmendedStep ==
    /\ \A i \in 0..4 :
         ( /\ ChoiceSelect(i) /\ chart.type = "decision"
           /\ ShownQuestion.isLast
           /\ NoDiagnosis(ShownQuestion.nexts[i + 1]) ) =>
           CompletedWith(ShownQuestion.nexts[i + 1])
    /\ ( /\ initializeResult /\ chart.type = "decision"
         /\ selectedChart /\ storedResult # None
         /\ Len(storedResult[1].diagnosisId) = 1
         /\ NoDiagnosis(storedResult[1].diagnosisId[1]) ) =>
         /\ error' = ErrDiagnosisNotFound
         /\ diagnosis' = 0
         /\ screen' = "result"
         /\ storedResult' = storedResult

C9_Step ==
    \A i \in 0..4 :
      ( /\ ChoiceSelect(i) /\ chart.type = "decision" /\ ~ShownQuestion.isLast
        /\ NoQuestion(ShownQuestion.nexts[i + 1]) ) =>
        /\ Failed
        /\ error' = ErrNextQuestionNotFound
        /\ ~ChoicesShown'

C9_MissingQuestion == [][C9_Step]_vars

C9_Witness ==
    /\ chart.type = "decision"
    /\ screen = "chart"
    /\ error = ErrNextQuestionNotFound
    /\ currentResult = storedResult
    /\ currentQuestion # 0
    /\ Len(currentResult[1].currentQId) = 1
    /\ chart.questions[currentQuestion].id = currentResult[1].currentQId[1]

\* C10 as stated: once a run has its diagnosis id set, no later step changes
\* its history, its score(s) or its diagnosis id for as long as it is kept.
C10_OriginalStep ==
    ( /\ storedResult # None /\ storedResult' # None
      /\ Len(storedResult[1].diagnosisId) = 1 ) =>
      /\ storedResult'[1].history = storedResult[1].history
      /\ storedResult'[1].currentPoint = storedResult[1].currentPoint
      /\ storedResult'[1].currentPoints = storedResult[1].currentPoints
      /\ storedResult'[1].diagnosisId = storedResult[1].diagnosisId

C10_Original == [][C10_OriginalStep]_vars

\* C8: an answer whose choice index lies outside [0, number of choices of
\* the current question) is rejected with an error before any history entry
\* is appended or any score or position changes.
C8_Step ==
    \A i \in 0..2 :
      AnyChoiceSelect(i) =>
        /\ error' # ""
        /\ currentResult' = currentResult
        /\ storedResult' = storedResult
        /\ questionTimer' = questionTimer
        /\ navigateTimer' = navigateTimer

C8_InvalidChoice == [][C8_Step]_vars

\* C11: evaluating an answer leaves the run state it started from
\* unmodified, for every chart type: after the step, the run state object the
\* answer was evaluated on is still the run state the component held before.
C11_Step ==
    \A i \in 0..4 :
      ChoiceSelect(i) => previousResult' = currentResult

C11_Pure == [][C11_Step]_vars

\* The decision chart is well formed: every target of a question that is not
\* final is the id of a question further on in the list, every target of a
\* final question is the id of a diagnosis.
WellFormedDecision ==
    /\ chart.type = "decision"
    /\ \A k \in DOMAIN chart.questions :
         \A j \in DOMAIN chart.questions[k].nexts :
           IF chart.questions[k].isLast
           THEN ~NoDiagnosis(chart.questions[k].nexts[j])
           ELSE \E m \in (k + 1)..Len(chart.questions) :
                   chart.questions[m].id = chart.questions[k].nexts[j]

\* The run in local storage has no diagnosis yet.
RunOpen == storedResult # None /\ storedResult[1].diagnosisId = <<>>

\* The position in the list of the question the stored run is at.
PositionOf(r) ==
    CHOOSE k \in DOMAIN chart.questions : <<chart.questions[k].id>> = r.currentQId

\* C12: in a well-formed decision chart every run is completed after at most
\* questions.length answers: no answer of an open run fails, an answer on a
\* question that is not final moves the run to a question further on, an
\* answer on a final question completes it, the answers given so far are
\* fewer than the position of the current question, and the chart screen of
\* an open run always offers the choices or has the next question pending.
C12_Step ==
    \A i \in 0..4 :
      (ChoiceSelect(i) /\ WellFormedDecision /\ RunOpen) =>
        /\ Accepted
        /\ Len(storedResult'[1].history) = Len(storedResult[1].history) + 1
        /\ Len(storedResult'[1].history) <= Len(chart.questions)
        /\ IF ShownQuestion.isLast
           THEN CompletedWith(ShownQuestion.nexts[i + 1])
           ELSE /\ storedResult'[1].diagnosisId = <<>>
                /\ questionTimer' > currentQuestion
                /\ PositionOf(storedResult'[1]) = questionTimer'

C12_Open ==
    (WellFormedDecision /\ RunOpen) =>
      /\ \E k \in DOMAIN chart.questions :
            <<chart.questions[k].id>> = storedResult[1].currentQId
      /\ Len(storedResult[1].history) < PositionOf(storedResult[1])
      /\ (screen = "chart" /\ chartData) =>
            /\ error = ""
            /\ currentQuestion # 0
            /\ IF isTransitioning
               THEN questionTimer = PositionOf(storedResult[1])
               ELSE currentQuestion = PositionOf(storedResult[1])

C12_Terminates == [][C12_Step]_vars /\ []C12_Open

\* A run of a well-formed decision chart completed by as many answers as the
\* chart has questions.
C12_Witness ==
    /\ WellFormedDecision
    /\ screen = "chart"
    /\ navigateTimer
    /\ storedResult # None
    /\ storedResult[1].diagnosisId # <<>>
    /\ Len(storedResult[1].history) = Len(chart.questions)

(***************************************************************************)
(* Properties of the CSV compiler, stated on the lines of the dropped file *)
(* and on what the page holds after the compilation.                       *)
(***************************************************************************)
\* The file has been compiled: the page holds a chart or an error.
Processed == createChartData # None \/ createError # None

Least(S) == CHOOSE x \in S : \A y \in S : x <= y

\* Line p of the file is not blank.
Filled(p) == p \in DOMAIN droppedFile /\ droppedFile[p] # <<EmptyField>>

\* Field k of line p, empty when the line has fewer fields.
FieldOf(p, k) ==
    IF k <= Len(droppedFile[p]) THEN droppedFile[p][k] ELSE EmptyField

\* The question section begins at the first line after the chart type that
\* is not blank and ends before the next blank line; the diagnosis section
\* begins at the first line after it that is not blank.  A section that is
\* missing begins after the last line.
QuestionStart ==
    Least({p \in 3..Len(droppedFile) : Filled(p)} \cup {Len(droppedFile) + 1})

QuestionEnd ==
    Least({p \in QuestionStart..Len(droppedFile) : ~Filled(p)}
            \cup {Len(droppedFile) + 1})

DiagnosisStart ==
    Least({p \in QuestionEnd..Len(droppedFile) : Filled(p)}
            \cup {Len(droppedFile) + 1})

FewLines == Len(droppedFile) < 5

NoQuestionSection == ~FewLines /\ QuestionStart > Len(droppedFile)

NoDiagnosisSection ==
    ~FewLines /\ ~NoQuestionSection /\ DiagnosisStart > Len(droppedFile)

\* The rows of the two sections: the lines of the question section after
\* its first line (the place of the header line), and the filled lines of
\* the diagnosis section, header lines apart.
QuestionRowLines ==
    {p \in (QuestionStart + 1)..(QuestionEnd - 1) :
        droppedFile[p][1].text # QuestionHeader}

DiagnosisRowLines ==
    {p \in DiagnosisStart..Len(droppedFile) :
        Filled(p) /\ droppedFile[p][1].text # DiagnosisHeader}

TypeOfText == droppedFile[2][1].text

\* The row is a valid question row: a positive id, a sentence, at least two
\* choices, and a number for every choice given.
ValidQuestionLine(p) ==
    /\ FieldOf(p, 1).kind = "number" /\ FieldOf(p, 1).value >= 1
    /\ FieldOf(p, 4).text # ""
    /\ Cardinality({i \in 1..5 : FieldOf(p, 4 + i).text # ""}) >= 2
    /\ \A i \in 1..5 :
          FieldOf(p, 4 + i).text # "" => FieldOf(p, 9 + i).kind = "number"

\* The row is a valid diagnosis row: a positive id, a sentence, and in a
\* single or multi chart numbers for the bounds that are given.
ValidDiagnosisLine(p) ==
    /\ FieldOf(p, 1).kind = "number" /\ FieldOf(p, 1).value >= 1
    /\ FieldOf(p, 5).text # ""
    /\ TypeOfText \in {"single", "multi"} =>
          \A k \in {3, 4} : FieldOf(p, k).kind \in {"number", "empty"}

OffendingQuestionLines == {p \in QuestionRowLines : ~ValidQuestionLine(p)}

OffendingDiagnosisLines == {p \in DiagnosisRowLines : ~ValidDiagnosisLine(p)}

\* Line 1 when the chart name is missing, line 2 when the type is unknown.
OffendingHeadLines ==
    {p \in {1} : droppedFile[1][1].text = ""}
      \cup {p \in {2} : TypeOfText \notin {"decision", "single", "multi"}}

\* C13: compiling a text of fewer than 5 lines, a text without question
\* section or a text without diagnosis section gives no chart and the
\* structural error of that case, which lists no row; it does not give the
\* aggregate format error, whatever the rows of the question section are.
C13_Structural ==
    (Processed /\ (FewLines \/ NoQuestionSection \/ NoDiagnosisSection)) =>
      /\ createChartData = None
      /\ createError # None
      /\ createError[1].errors = <<>>
      /\ createError[1].message # ErrFormat
      /\ createError[1].message =
            IF FewLines THEN ErrTooFewLines
            ELSE IF NoQuestionSection THEN ErrNoQuestionPart
            ELSE ErrNoDiagnosisPart

\* A text whose question section holds an invalid row and which has no
\* diagnosis section has been refused as having no diagnosis section.
C13_Witness ==
    /\ Processed
    /\ NoDiagnosisSection
    /\ OffendingQuestionLines # {}
    /\ createError = Some([message |-> ErrNoDiagnosisPart, errors |-> <<>>])

C15_Shape ==
    createChartData # None =>
      LET c == createChartData[1]
      IN  /\ Len(c.questions) >= 1
          /\ Len(c.diagnoses) >= 1
          /\ \A k \in DOMAIN c.questions :
                LET q == c.questions[k]
                IN  /\ Len(q.choises) \in 2..5
                    /\ Len(q.nexts) = Len(q.choises)
                    /\ q.points # <<>> => Len(q.points[1]) = Len(q.choises)

\* A compiled chart with a question of 5 choices that has points and a
\* question of 2 choices.
C15_Witness ==
    /\ createChartData # None
    /\ \E k, l \in DOMAIN createChartData[1].questions :
          /\ Len(createChartData[1].questions[k].choises) = 5
          /\ createChartData[1].questions[k].points # <<>>
          /\ Len(createChartData[1].questions[l].choises) = 2

\* C16: in a chart returned by the compiler the question ids are positive
\* and pairwise distinct.
C16_UniqueIds ==
    createChartData # None =>
      LET c == createChartData[1]
      IN  /\ \A k \in DOMAIN c.questions : c.questions[k].id >= 1
          /\ \A k, l \in DOMAIN c.questions :
                k # l => c.questions[k].id # c.questions[l].id

(***************************************************************************)
(* Properties of the chart store.                                          *)
(***************************************************************************)
\* The number of charts in the store.
StoredCharts ==
    chartTable["a"] + chartTable["b"] + chartTable["c"] + chartTable["d"]

\* C17: under any interleaving of registration requests and deletions the
\* chart store never holds more than 3 charts.
C17_ChartLimit == StoredCharts <= 3

\* C18: under any interleaving of registration requests the chart store
\* never holds two charts of the same name.
C18_UniqueNames == \A n \in {"a", "b", "c", "d"} : chartTable[n] <= 1

\* The step refuses request r: it is answered with an error status and the
\* chart store is left as it was.
Refused(r) ==
    /\ registerPc'[r] = "done"
    /\ registerStatus'[r] >= 400
    /\ chartTable' = chartTable

\* C19: a registration that comes to its check of the chart count while 3
\* charts are stored, or to its check of the name while a chart of its name
\* is stored, is answered with an error and leaves the store as it was.
C19_Step ==
    \A r \in 1..MaxRequests :
      /\ (RegisterCount(r) /\ StoredCharts >= 3) => Refused(r)
      /\ (RegisterFind(r) /\ chartTable[registerName[r]] >= 1) => Refused(r)

C19_Rejected == [][C19_Step]_vars

\* C26: the chart that the chart application parses from the list is
\* equal, field for field, to the chart the compiler made of the CSV text.
C26_RoundTrip ==
    (listedChart # None /\ createChartData # None)
        => listedChart[1] = createChartData[1]

\* A chart with two questions, one of them with five choices and their
\* points, has made the round trip.
C26_Witness ==
    /\ listedChart # None
    /\ createChartData # None
    /\ Len(listedChart[1].questions) = 2
    /\ Len(listedChart[1].questions[2].choises) = 5
    /\ listedChart[1].questions[2].points = <<(<<7, 8, 7, 8, 7>>)>>
    /\ listedChart[1].diagnoses[1].upper = 3

(***************************************************************************)
(* Properties of the run state in local storage.                           *)
(***************************************************************************)
\* The run state a has the question, the score(s) and the history of b.
SameRun(a, b) ==
    /\ a.currentQId = b.currentQId
    /\ a.currentPoint = b.currentPoint
    /\ a.currentPoints = b.currentPoints
    /\ a.history = b.history

\* The chart screen shows a run without error.
RunShown ==
    /\ screen = "chart"
    /\ chartData
    /\ error = ""
    /\ currentResult # None

\* C24, the answer: a step that adds an answer to the run without error
\* leaves in local storage the run state that is in the component.
C24_Step ==
    ( /\ RunShown
      /\ error' = ""
      /\ currentResult' # None
      /\ Len(currentResult'[1].history) = Len(currentResult[1].history) + 1 )
    => ( /\ storedResult' # None
         /\ SameRun(storedResult'[1], currentResult'[1]) )

\* C24, at any point: while a run is shown, local storage holds its state.
C24_InStorage ==
    RunShown => (storedResult # None /\ SameRun(storedResult[1], currentResult[1]))

\* C24, the reload: the chart screen mounted again takes the run state of
\* local storage and shows the question of its current question id.
C24_ResumeStep ==
    (screen = "chart" /\ ~chartData /\ chartData')
    => ( /\ currentResult' = storedResult
         /\ storedResult' = storedResult
         /\ error' = ""
              => <<chart.questions[currentQuestion'].id>>
                   = storedResult[1].currentQId )

C20_OneRecord == \A run \in 1..MaxRuns : resultTable[run] <= 1

\* The server has answered a request with the error of the passphrase
\* generation or of the photo encryption.
CryptoFailed(answer) == answer \in {"500 passphrase", "500 encryption"}

\* C21: a request that fails at the passphrase generation or at the photo
\* encryption inserts no result record and writes no photo file.
C21_Step ==
    CryptoFailed(saveAnswer')
        => (resultTable' = resultTable /\ photoFiles' = photoFiles)

C21_SaveFailsAsWhole == [][C21_Step]_vars

C21_Witness ==
    /\ CryptoFailed(saveAnswer)
    /\ \E run \in 1..MaxRuns : runState[run] # "none" /\ resultTable[run] = 0
                               /\ photoFiles[run] = 0

(***************************************************************************)
(* Properties of the photo encryption.                                     *)
(***************************************************************************)
\* A decrypt function has been applied to the whole output of EncryptImage.
DecryptedWhole(fn) ==
    /\ decrypted # <<>>
    /\ decrypted[1].fn = fn
    /\ decryptInput[1] = encrypted[1].value

\* C22: the aggregation tool's decrypt applied, with the same key, to the
\* output of the server's encrypt returns exactly the bytes of the photo,
\* the empty photo included (the backend's own decrypt returns them in
\* base64).
C22_RoundTrip ==
    /\ DecryptedWhole("decryptAES256CTR")
         => (decrypted[1].ok /\ decrypted[1].value = cryptoPlain)
    /\ DecryptedWhole("DecryptImage")
         => (decrypted[1].ok /\ decrypted[1].value = cryptoPhoto)

C22_Witness ==
    /\ DecryptedWhole("decryptAES256CTR")
    /\ Len(cryptoPlain) = MaxBytes
    /\ decrypted[1].value = cryptoPlain

\* C23: every decrypt function given fewer than 16 bytes returns an error.
C23_Truncated ==
    (decrypted # <<>> /\ Len(decryptInput[1]) < 16) => ~decrypted[1].ok

\* The run is on the server or in the offline queue.
HandedOver(run) ==
    \/ resultTable[run] >= 1
    \/ \E e \in offlineResults : e.run = run

\* C25: a completed run that is no longer in local storage has been handed
\* over: the server has accepted it or it is in the offline queue.
C25_HandedOver ==
    \A run \in 1..MaxRuns :
        runState[run] \in {"saved", "dropped"} => HandedOver(run)

\* The loop of decryptPhotos has gone through all the results.
ToolDone == toolError = 0 /\ toolIndex = Len(toolResults) + 1

\* The turn of decryptPhotos on a result whose photo file is missing goes on
\* to the next result with a warning, and decrypts and counts nothing.
C27_Step ==
    ( /\ toolExit = -1
      /\ csvIndex = Len(toolResults) + 1
      /\ toolIndex <= Len(toolResults)
      /\ toolResults[toolIndex].kind = "missing" )
        => /\ toolIndex' = toolIndex + 1
           /\ toolError' = 0
           /\ toolWarnings' = toolWarnings \cup {toolIndex}
           /\ decryptedCount' = decryptedCount
           /\ decryptedFiles' = decryptedFiles

\* The count is the number of photos decrypted; without an error, every
\* result before the loop position whose photo file is there has its
\* photo decrypted, whatever files were missing before it.
C27_Counted ==
    /\ decryptedCount = Cardinality(decryptedFiles)
    /\ toolError = 0 =>
         {f.id : f \in decryptedFiles} =
             {k \in 1..(toolIndex - 1) : toolResults[k].kind # "missing"}
    /\ \A f \in decryptedFiles : f.data = ToolPhoto

\* C27: the aggregation tool continues past a result whose photo file is
\* missing: it warns, skips that photo only, still decrypts the photos of
\* the later results, and counts only the photos it decrypted.
C27_ContinuesPastMissing == [][C27_Step]_vars /\ []C27_Counted

C27_Witness ==
    /\ ToolDone
    /\ Len(toolResults) = MaxResults
    /\ toolResults[1].kind = "missing"
    /\ toolWarnings = {1}
    /\ decryptedCount = MaxResults - 1
    /\ {f.id : f \in decryptedFiles} = 2..MaxResults

\* The row of the result table of a completed single run: the diagnosis id
\* and the final score as the evaluator stored them.
StoredRow ==
    [ResultID |-> storedResult[1].diagnosisId[1],
     Point |-> [kind |-> "int", value |-> storedResult[1].currentPoint[1]]]

SingleCompleted ==
    /\ chart.type = "single"
    /\ storedResult # None
    /\ IsNum(storedResult[1].diagnosisId)
    /\ IsNum(storedResult[1].currentPoint)

\* C28: for the stored point of a completed single run the aggregator finds
\* the diagnosis whose id the evaluator stored at completion.
C28_SameDiagnosis ==
    SingleCompleted =>
        LET text == getResultText(StoredRow, chart)
        IN  /\ text.ok
            /\ chart.diagnoses[text.value[1]].id = StoredRow.ResultID

\* The question with id target has been answered before in the run.
Revisited(target) ==
    \E k \in DOMAIN currentResult[1].history :
        currentResult[1].history[k].questionId = target

\* An answer on a question of a decision chart that is not final and leads
\* back to a question answered before is accepted as any other: the run
\* moves to that question, the answer is appended to the history and the
\* run has no diagnosis.
C29_Step ==
    \A i \in 0..4 :
      ( /\ ChoiceSelect(i)
        /\ chart.type = "decision"
        /\ ~ShownQuestion.isLast
        /\ Revisited(ShownQuestion.nexts[i + 1]) )
      => /\ MovedTo(ShownQuestion.nexts[i + 1])
         /\ currentResult'[1].history =
                Append(currentResult[1].history, IHistory(ShownQuestion.id, i))
         /\ currentResult'[1].diagnosisId = <<>>

\* A run of a decision chart has a diagnosis only after an answer on a
\* final question.
C29_CompletedByFinal ==
    ( /\ chart.type = "decision"
      /\ storedResult # None
      /\ storedResult[1].diagnosisId # <<>> )
    => LET history == storedResult[1].history
           last == history[Len(history)].questionId
       IN  /\ history # <<>>
           /\ \E k \in DOMAIN chart.questions :
                  chart.questions[k].id = last /\ chart.questions[k].isLast

\* C29: the evaluator bounds no number of transitions and detects no cycle:
\* on a decision chart whose nexts form a cycle among questions that are
\* not final, every further answer along the cycle is accepted without an
\* error and the run is not completed.
C29_CycleGoesOn == [][C29_Step]_vars /\ []C29_CompletedByFinal

\* Twice around the cycle 1 -> 2 -> 1, and question 1 is shown again.
C29_Witness ==
    /\ chart.type = "decision"
    /\ screen = "chart"
    /\ error = ""
    /\ currentResult # None
    /\ currentResult[1].history =
           <<IHistory(1, 0), IHistory(2, 1), IHistory(1, 0), IHistory(2, 1)>>
    /\ currentResult[1].currentQId = <<1>>
    /\ currentResult[1].diagnosisId = <<>>
    /\ storedResult = currentResult
    /\ currentQuestion = 1
    /\ ~isTransitioning

\* The question section of the dropped text: the lines from the first line
\* after the chart type that is not blank up to the next blank line.
SectionStart ==
    CHOOSE p \in 3..(Len(droppedFile) + 1) :
        /\ p <= Len(droppedFile) => ~IsBlankLine(droppedFile[p])
        /\ \A k \in 3..(p - 1) : IsBlankLine(droppedFile[k])

SectionEnd ==
    CHOOSE p \in SectionStart..(Len(droppedFile) + 1) :
        /\ p <= Len(droppedFile) => IsBlankLine(droppedFile[p])
        /\ \A k \in SectionStart..(p - 1) : ~IsBlankLine(droppedFile[k])

QuestionRowsOfText ==
    SelectSeq(SubSeq(droppedFile, SectionStart, SectionEnd - 1),
              LAMBDA line : line[1].text # QuestionHeader)

\* C30: the header line of the question section is optional: every line of
\* the section whose first field is not the header's becomes a question of
\* the compiled chart, in the order of the text, the first line included.
C30_EveryRowAQuestion ==
    createChartData # None =>
        /\ Len(createChartData[1].questions) = Len(QuestionRowsOfText)
        /\ \A k \in DOMAIN QuestionRowsOfText :
               k \in DOMAIN createChartData[1].questions
                 => createChartData[1].questions[k].id
                        = QuestionRowsOfText[k][1].value

\* The point p divided by 2 without remainder, and at most 5.
Scaled(p) ==
    LET half == CHOOSE h \in 0..p : 2 * h <= p /\ p < (2 * h) + 2
    IN  IF half > 5 THEN 5 ELSE half

\* The diagnoses of the chart of category cat whose range contains the
\* scaled point p.
Matching(cat, p) ==
    {k \in DOMAIN toolChart.diagnoses :
        /\ toolChart.diagnoses[k].category = cat
        /\ toolChart.diagnoses[k].lower <= Scaled(p)
        /\ Scaled(p) <= toolChart.diagnoses[k].upper}

\* text is the sentence of the first matching diagnosis, or says that there
\* is none.
ResolvedTo(text, cat, p) ==
    IF Matching(cat, p) = {} THEN text = NoDiagnosisText
    ELSE /\ text.kind = "sentence"
         /\ text.diagnosis \in Matching(cat, p)
         /\ \A k \in Matching(cat, p) : text.diagnosis <= k

\* The results of a multi chart whose Point is a list of category points.
MultiResult(id) ==
    toolChart.type = "multi" /\ toolResults[id].Point.kind = "array"

\* In every row written for such a result, each category that has a point
\* carries that point and the sentence resolved from it.
C31_Rows ==
    \A r \in DOMAIN csvRows :
        MultiResult(csvRows[r].id) =>
            LET points == toolResults[csvRows[r].id].Point.value
                cells == csvRows[r].cells
            IN  \A c \in DOMAIN cells :
                    \A i \in DOMAIN points :
                        ( /\ points[i].category = cells[c].category
                          /\ \A j \in 1..(i - 1) :
                                 points[j].category # cells[c].category )
                        => /\ cells[c].point = points[i].point
                           /\ ResolvedTo(cells[c].text, cells[c].category,
                                         points[i].point)

\* getResultText on such a result names, for each point with a matching
\* diagnosis, the category and the first matching diagnosis, and nothing
\* for the others.
C31_Text ==
    \A id \in DOMAIN toolResults :
        MultiResult(id) =>
            LET points == toolResults[id].Point.value
                text == getResultText(toolResults[id], toolChart)
                matched == {i \in DOMAIN points :
                              Matching(points[i].category, points[i].point) # {}}
            IN  /\ text.ok <=> matched # {}
                /\ Len(text.value) = Cardinality(matched)
                /\ \A j \in DOMAIN text.value :
                       \E i \in matched :
                           /\ text.value[j][1] = points[i].category
                           /\ ResolvedTo(Sentence(text.value[j][2]),
                                         points[i].category, points[i].point)

\* C31: for a multi chart the aggregator scales each stored category point
\* (half of it without remainder, at most 5) and takes the first diagnosis
\* of the category whose range contains the scaled value; a category
\* without such a diagnosis gets no diagnosis text.
C31_ScaledMatch == C31_Rows /\ C31_Text

\* Rows are written for: A = 7 (scaled 3, in the ranges of two diagnoses of
\* A) with B = 14 (scaled 7, capped at 5); B = 1 and A = 10 (no diagnosis).
C31_Witness ==
    /\ toolChart.type = "multi"
    /\ \E r \in DOMAIN csvRows :
          csvRows[r].cells =
              <<[category |-> "A", point |-> 7, text |-> Sentence(1)],
                [category |-> "B", point |-> 14, text |-> Sentence(2)]>>
    /\ \E r \in DOMAIN csvRows :
          csvRows[r].cells =
              <<[category |-> "A", point |-> 10, text |-> NoDiagnosisText],
                [category |-> "B", point |-> 1, text |-> NoDiagnosisText]>>

\* C32: for a chart of the legacy type point the aggregator writes the CSV
\* header and one row per result as for a single chart: the process does
\* not end with an error before the first result, and when it ends with
\* status 0 every result has its row.
C32_LegacyAsSingle ==
    toolChart # <<>> /\ toolChart.type = "point" =>
        /\ toolExit = 1 => csvIndex >= 1
        /\ toolExit = 0 => Len(csvRows) = Len(toolResults)

\* The point value of the choice recorded in the history entry h: that of
\* the choice in the question with the entry's id (a question of a decision
\* chart gives no points); counted for the category cat only, for every
\* category when cat is "".
PointOfEntry(h, cat) ==
    LET q == chart.questions[CHOOSE k \in DOMAIN chart.questions :
                                 chart.questions[k].id = h.questionId]
    IN  IF chart.type = "decision" \/ (cat # "" /\ q.category # cat) THEN 0
        ELSE DeltaOf(q, h.choise)

RECURSIVE SumOfHistory(_, _)
SumOfHistory(history, cat) ==
    IF history = <<>> THEN 0
    ELSE SumOfHistory(SubSeq(history, 1, Len(history) - 1), cat)
           + PointOfEntry(history[Len(history)], cat)

\* The scores of the run state r are the sums over its history.
ScoresAreSums(r) ==
    IF chart.type = "multi"
    THEN /\ r.currentPoints # NoList
         /\ LET points == r.currentPoints[1]
            IN  /\ points = <<>> => r.history = <<>>
                /\ \A k \in DOMAIN points :
                       points[k].point =
                           <<SumOfHistory(r.history, points[k].category)>>
    ELSE ScoreOf(r) = SumOfHistory(r.history, "")

\* An accepted answer appends its entry to the history.
C33_Step ==
    \A i \in 0..4 :
      (ChoiceSelect(i) /\ error' = "") =>
          currentResult'[1].history =
              Append(currentResult[1].history, IHistory(ShownQuestion.id, i))

\* The run state in local storage, and the one of the component while no
\* error is shown, have the sums of their history as scores.
C33_Sums ==
    /\ storedResult # None => ScoresAreSums(storedResult[1])
    /\ (currentResult # None /\ error = "") => ScoresAreSums(currentResult[1])

\* C33: after any sequence of successful answers the history holds one
\* entry (questionId, choiceIndex) per answer in the order of the answers,
\* and the score is the sum over the history of the point values of the
\* recorded choices (in a multi chart: per category).
C33_HistoryAndScore == [][C33_Step]_vars /\ []C33_Sums

\* A multi run completed by three answers with points in both categories.
C33_Witness ==
    /\ chart.type = "multi"
    /\ storedResult # None
    /\ Len(storedResult[1].history) = 3
    /\ storedResult[1].diagnosisId # <<>>
    /\ \A k \in DOMAIN storedResult[1].currentPoints[1] :
           storedResult[1].currentPoints[1][k].point[1] > 0
    /\ Len(storedResult[1].currentPoints[1]) = 2

\* C34: in a single or multi chart, an answer to a question that is not
\* final and fails because the question with the next id does not exist
\* leaves the scores and the history of the run state of the component as
\* they were.
C34_Step ==
    \A i \in 0..4 :
      ( /\ ChoiceSelect(i)
        /\ chart.type \in {"single", "multi"}
        /\ ~ShownQuestion.isLast
        /\ error' = ErrNextQuestionNotFound )
      => /\ currentResult'[1].currentPoint = currentResult[1].currentPoint
         /\ currentResult'[1].currentPoints = currentResult[1].currentPoints
         /\ currentResult'[1].history = currentResult[1].history

C34_FailedAnswerKeepsState == [][C34_Step]_vars

\* C35: when the answer handler runs twice on the same rendered state, the
\* run state that results is that of one of the two answers applied once:
\* one entry more in the history, and scores that are the sums over the
\* history.
C35_Step ==
    \A i \in 0..4, j \in 0..4 :
      (ChoiceSelectTwice(i, j) /\ error' = "") =>
          /\ \E k \in {i, j} :
                 currentResult'[1].history =
                     Append(currentResult[1].history,
                            IHistory(ShownQuestion.id, k))
          /\ ScoresAreSums(currentResult'[1])
          /\ storedResult' = Some(JsonResult(currentResult'[1]))

C35_OneAnswerCounts == [][C35_Step]_vars

\* C36: in every multi chart produced by the compiler, the diagnosis id a
\* completing run receives (the target of the chosen answer of a final
\* question) is the id of a diagnosis of the chart.
C36_DiagnosisOfChart ==
    (createChartData # None /\ createChartData[1].type = "multi") =>
        \A k \in DOMAIN createChartData[1].questions :
            LET q == createChartData[1].questions[k]
            IN  q.isLast =>
                  \A i \in DOMAIN q.nexts :
                      \E d \in DOMAIN createChartData[1].diagnoses :
                          createChartData[1].diagnoses[d].id = q.nexts[i]


\* C37: every record of the result table has its photo file: in every state
\* reached by save requests, answers with an error included, the runs have as
\* many photo files as records.
C37_RecordHasPhoto ==
    \A run \in Runs : photoFiles[run] = resultTable[run]


\* An entry of the offline queue that the step removes.
C38_Step(e) == e \in offlineResults /\ e \notin offlineResults'

\* The server has answered a send of the run with success: the handler has
\* reached its last statement, after the photo file was written.
AnsweredSuccess(run) == photoFiles[run] >= 1

\* A send of a synchronisation that was not answered with success: the loop
\* goes on to the next entry without deleting.
FailedSend ==
    \E s \in Syncs :
        /\ syncList[s] # <<>>
        /\ ~syncDeleting[s]
        /\ ~syncDeleting'[s]
        /\ syncList'[s] = Tail(syncList[s])

C38_Removed ==
    \A e \in offlineResults : C38_Step(e) => AnsweredSuccess(e.run)

C38_Kept == FailedSend => offlineResults \subseteq offlineResults'

\* C38: an entry is removed from the offline queue only after the server
\* has answered a send of its result with success, and a send that fails or
\* is rejected leaves the queue as it is.
C38_RemovedOnlyAfterSuccess == [][C38_Removed /\ C38_Kept]_vars

\* An entry was queued, sent by a synchronisation and removed.
C38_Witness ==
    /\ offlineSeq > 1
    /\ offlineResults = {}
    /\ \E run \in Runs : runState[run] = "saved" /\ AnsweredSuccess(run)


\* The queue holds an entry of the run.
Queued(run) == \E e \in offlineResults : e.run = run

\* A run of the model has reached the largest number of records; no request
\* is sent for it any more.
Capped == \E run \in Runs : resultTable[run] = MaxRecords

\* A synchronisation has received the answer ok for the entry of the run and
\* is about to delete it.
Acked(run) ==
    \E s \in Syncs :
        /\ syncDeleting[s]
        /\ syncList[s] # <<>>
        /\ Head(syncList[s]).run = run

NoDiagnosisFor(result, category) ==
    \A i \in DOMAIN result.Point.value :
        result.Point.value[i].category = category =>
            Matching(category, result.Point.value[i].point) = {}

\* The diagnosis of the result cannot be resolved from the chart.
Unresolvable(result, c) ==
    IF c.type = "decision"
    THEN \A d \in DOMAIN c.diagnoses : c.diagnoses[d].id # result.ResultID
    ELSE /\ result.Point.kind = "array"
         /\ \E k \in DOMAIN c.questions :
                NoDiagnosisFor(result, c.questions[k].category)

\* The result is one the tool fails on: its diagnosis cannot be resolved,
\* its history or (in a chart with points) its points cannot be read, or it
\* has a photo file that cannot be read or decrypted.
FailingResult(result, c) ==
    \/ Unresolvable(result, c)
    \/ result.history # "json"
    \/ c.type # "decision" /\ result.Point.kind = "other"
    \/ result.kind = "unreadable"
    \/ result.kind = "file" /\ Len(result.data) < BlockSize

\* C40: the tool never exits 0 after a result it fails on for another
\* reason than a missing photo file.
C40_NoExitZeroAfterFailure ==
    toolExit = 0 =>
        \A i \in DOMAIN toolResults : ~FailingResult(toolResults[i], toolChart)

====
